---- MODULE Spec2Model ----
(***************************************************************************)
(* A model of the address arithmetic (CIDRMath) and of the allocators      *)
(* built on it.                                                            *)
(*                                                                         *)
(* Representation of the program's values:                                 *)
(*  - a string is the sequence of its characters, each a one-character     *)
(*    string: "10.0.0.0/8" is <<"1","0",".","0",".","0",".","0","/","8">>; *)
(*  - a bigint n >= 0 is the set of the positions of its one bits          *)
(*    (5 = {0, 2}), so that the 32-bit address space, which exceeds the    *)
(*    integers of the model checker, is computed at its true width;        *)
(*  - a number that the program keeps as a JavaScript number and that is   *)
(*    an integer below 2^31 (a prefix length, a count, an index) is an     *)
(*    integer;                                                             *)
(*  - a thrown Error is a record [ok |-> FALSE, error |-> <throw site>].   *)
(***************************************************************************)
EXTENDS Integers, Sequences, FiniteSets, TLC

\* ------------------------------------------------------------------------
\* bigint arithmetic on sets of bit positions
\* ------------------------------------------------------------------------

\* The largest element of a non-empty set of integers.
Max(S) == CHOOSE m \in S : \A x \in S : x <= m

\* The positions a result can occupy: one above the highest bit of a or b.
BitsUpTo(a, b) == 0 .. (IF a \cup b = {} THEN 0 ELSE Max(a \cup b) + 1)

\* BigInt(n) for an integer 0 <= n < 2^31.
BigInt(n) == {b \in 0..30 : (n \div (2^b)) % 2 = 1}

\* Number(x) for a bigint below 2^31.
RECURSIVE BigToNumber(_)
BigToNumber(x) ==
    IF x = {} THEN 0
    ELSE LET b == Max(x) IN 2^b + BigToNumber(x \ {b})

\* x << k
BigShl(x, k) == {b + k : b \in x}

\* x >> k  (x >= 0)
BigShr(x, k) == {b - k : b \in {c \in x : c >= k}}

\* a & b, a | b
BigAnd(a, b) == a \cap b
BigOr(a, b) == a \cup b

\* a < b, a <= b, a > b
BigLt(a, b) == a # b /\ Max((a \ b) \cup (b \ a)) \in b
BigLe(a, b) == a = b \/ BigLt(a, b)
BigGt(a, b) == BigLt(b, a)

\* a + b: bit i of the sum is a_i xor b_i xor carry_i, and a carry enters
\* position i when some lower position j generates one (both bits set) and
\* every position between j and i propagates it (at least one bit set).
BigAdd(a, b) ==
    LET carry(i) == \E j \in 0..(i-1) :
                       /\ j \in a /\ j \in b
                       /\ \A k \in (j+1)..(i-1) : k \in a \/ k \in b
        bit(i) == ((i \in a) # (i \in b)) # carry(i)
    IN {i \in BitsUpTo(a, b) : bit(i)}

\* a - b for a >= b: a borrow enters position i when some lower position j
\* generates one (a_j = 0, b_j = 1) and every position between propagates it
\* (not a_k = 1, b_k = 0).
BigSub(a, b) ==
    LET borrow(i) == \E j \in 0..(i-1) :
                        /\ j \notin a /\ j \in b
                        /\ \A k \in (j+1)..(i-1) : k \notin a \/ k \in b
        bit(i) == ((i \in a) # (i \in b)) # borrow(i)
    IN {i \in BitsUpTo(a, b) : bit(i)}

\* a * b: the sum of a << k over the one bits k of b, taken over the factor
\* with the fewer one bits.
RECURSIVE BigMul(_, _)
BigMul(a, b) ==
    IF Cardinality(a) < Cardinality(b) THEN BigMul(b, a)
    ELSE IF b = {} THEN {}
    ELSE LET k == Max(b) IN BigAdd(BigShl(a, k), BigMul(a, b \ {k}))

\* a % m for a >= 0 and m a power of two. Every divisor the program uses is
\* subnetAddressCount(prefix) = 1 << (32 - prefix).
BigMod(a, m) == LET k == Max(m) IN {b \in a : b < k}

\* BigInt(0xffffffff)
Mask32 == 0..31

\* ------------------------------------------------------------------------
\* strings
\* ------------------------------------------------------------------------

Digits == <<"0", "1", "2", "3", "4", "5", "6", "7", "8", "9">>

IsDigit(c) == \E d \in 1..10 : Digits[d] = c

DigitValue(c) == (CHOOSE d \in 1..10 : Digits[d] = c) - 1

\* String(n) for an integer n >= 0: its decimal digits, no leading zero.
RECURSIVE NumberToString(_)
NumberToString(n) ==
    IF n < 10 THEN <<Digits[n + 1]>>
    ELSE NumberToString(n \div 10) \o <<Digits[(n % 10) + 1]>>

\* The value of a non-empty run of decimal digits.
RECURSIVE DigitsValue(_)
DigitsValue(s) ==
    IF Len(s) = 0 THEN 0
    ELSE 10 * DigitsValue(SubSeq(s, 1, Len(s) - 1)) + DigitValue(s[Len(s)])

AllDigits(s) == \A i \in 1..Len(s) : IsDigit(s[i])

\* s.split(sep): the pieces of s between the occurrences of sep ("" gives [""]).
RECURSIVE Split(_, _)
Split(s, sep) ==
    IF \E i \in 1..Len(s) : s[i] = sep
    THEN LET i == CHOOSE j \in 1..Len(s) :
                      s[j] = sep /\ \A k \in 1..(j-1) : s[k] # sep
         IN <<SubSeq(s, 1, i - 1)>> \o Split(SubSeq(s, i + 1, Len(s)), sep)
    ELSE <<s>>

\* parts.join(sep)
RECURSIVE Join(_, _)
Join(parts, sep) ==
    IF Len(parts) = 0 THEN <<>>
    ELSE IF Len(parts) = 1 THEN parts[1]
    ELSE parts[1] \o <<sep>> \o Join(Tail(parts), sep)

\* Number(s) over the alphabet of the model (decimal digits, ".", "/", "-" and
\* the letters a, b, c, d, i, r, x; no white space, "+", exponent or radix
\* prefix): the empty string is 0, a run of digits is its value, "-" and a run
\* of digits is the negated value, anything else is NaN.
NumberIsNaN(s) ==
    ~ \/ s = <<>>
      \/ AllDigits(s)
      \/ Len(s) >= 2 /\ s[1] = "-" /\ AllDigits(Tail(s))

NumberValue(s) ==
    IF s = <<>> THEN 0
    ELSE IF s[1] = "-" THEN 0 - DigitsValue(Tail(s))
    ELSE DigitsValue(s)

\* ------------------------------------------------------------------------
\* CIDRMath
\* ------------------------------------------------------------------------

Throw(site) == [ok |-> FALSE, error |-> site]

\* ipToNumber throws unless the string has four parts, each a number in 0..255.
ipToNumberThrows(ip) ==
    LET parts == Split(ip, ".")
    IN \/ Len(parts) # 4
       \/ \E i \in 1..Len(parts) :
             \/ NumberIsNaN(parts[i])
             \/ NumberValue(parts[i]) < 0
             \/ NumberValue(parts[i]) > 255

ipToNumber(ip) ==
    LET parts == Split(ip, ".")
        p(i) == BigInt(NumberValue(parts[i]))
    IN BigOr(BigOr(BigShl(p(1), 24), BigShl(p(2), 16)),
             BigOr(BigShl(p(3), 8), p(4)))

\* numberToIp that writes the octets lowest first.
numberToIp_reversed(num) ==
    LET octet(shift) ==
            NumberToString(BigToNumber(BigAnd(BigShr(BigAnd(num, Mask32), shift), 0..7)))
    IN Join(<<octet(0), octet(8), octet(16), octet(24)>>, ".")

numberToIp(num) ==
    LET n == BigAnd(num, Mask32)
        octet(shift) == NumberToString(BigToNumber(BigAnd(BigShr(n, shift), 0..7)))
    IN Join(<<octet(24), octet(16), octet(8), octet(0)>>, ".")

prefixToMaskThrows(prefix) == prefix < 0 \/ prefix > 32

prefixToMask(prefix) == BigAnd(BigShl(Mask32, 32 - prefix), Mask32)

subnetAddressCountThrows(prefix) == prefix < 0 \/ prefix > 32

subnetAddressCount(prefix) == BigShl(BigInt(1), 32 - prefix)

\* usableHosts without the cases of /31 and /32.
usableHosts_noPointToPoint(prefix) ==
    IF BigGt(subnetAddressCount(prefix), BigInt(2))
    THEN BigSub(subnetAddressCount(prefix), BigInt(2))
    ELSE BigInt(0)

usableHosts(prefix) ==
    IF prefix = 32 THEN BigInt(1)
    ELSE IF prefix = 31 THEN BigInt(2)
    ELSE LET count == subnetAddressCount(prefix)
         IN IF BigGt(count, BigInt(2)) THEN BigSub(count, BigInt(2)) ELSE BigInt(0)

\* Whether the text matches /^(\d{1,3}\.\d{1,3}\.\d{1,3}\.\d{1,3})\/(\d{1,2})$/ :
\* "/" and "." occur nowhere else in the pattern, so the text matches exactly
\* when it splits at "/" into two pieces, the second of one or two digits and
\* the first splitting at "." into four pieces of one to three digits.
CidrMatches(cidr) ==
    LET halves == Split(cidr, "/")
    IN /\ Len(halves) = 2
       /\ Len(halves[2]) \in 1..2 /\ AllDigits(halves[2])
       /\ LET octets == Split(halves[1], ".")
          IN /\ Len(octets) = 4
             /\ \A i \in 1..4 : Len(octets[i]) \in 1..3 /\ AllDigits(octets[i])

parseCIDR(cidr) ==
    IF ~CidrMatches(cidr) THEN Throw("parseCIDR: Invalid CIDR notation")
    ELSE LET halves == Split(cidr, "/")
             prefix == DigitsValue(halves[2])
         IN IF prefix < 0 \/ prefix > 32
            THEN Throw("parseCIDR: Invalid prefix length in CIDR")
            ELSE IF ipToNumberThrows(halves[1])
            THEN Throw("ipToNumber: Invalid IP address")
            ELSE [ok |-> TRUE, ip |-> halves[1], prefix |-> prefix]

\* getNetworkAddress and getBroadcastAddress for an ip that ipToNumber accepts
\* and a prefix that prefixToMask accepts.
getNetworkAddress(ip, prefix) ==
    numberToIp(BigAnd(ipToNumber(ip), prefixToMask(prefix)))

\* hostMask = ~mask & 0xffffffff: the low 32 bits that are not in the mask.
getBroadcastAddress(ip, prefix) ==
    LET mask == prefixToMask(prefix)
        hostMask == Mask32 \ mask
    IN numberToIp(BigOr(BigAnd(ipToNumber(ip), mask), hostMask))

\* getHostRange that gives a /31 its two addresses: first the network
\* address, last the broadcast address.
getHostRange_bothOfSlash31(ip, prefix) ==
    IF prefix = 32
    THEN [first |-> getNetworkAddress(ip, prefix), last |-> getNetworkAddress(ip, prefix)]
    ELSE IF prefix = 31
    THEN [first |-> getNetworkAddress(ip, prefix), last |-> getBroadcastAddress(ip, prefix)]
    ELSE [first |-> numberToIp(BigAdd(ipToNumber(getNetworkAddress(ip, prefix)), BigInt(1))),
          last |-> numberToIp(BigSub(ipToNumber(getBroadcastAddress(ip, prefix)), BigInt(1)))]

getHostRange(ip, prefix) ==
    IF prefix = 32
    THEN LET network == getNetworkAddress(ip, prefix)
         IN [first |-> network, last |-> network]
    ELSE LET networkNum == ipToNumber(getNetworkAddress(ip, prefix))
             broadcastNum == ipToNumber(getBroadcastAddress(ip, prefix))
         IN [first |-> numberToIp(BigAdd(networkNum, BigInt(1))),
             last |-> numberToIp(BigSub(broadcastNum, BigInt(1)))]

subnetCountThrows(supernetPrefix, subnetPrefix) == subnetPrefix < supernetPrefix

subnetCount(supernetPrefix, subnetPrefix) ==
    BigShl(BigInt(1), subnetPrefix - supernetPrefix)

\* getNthSubnet that adds the offset to the supernet address as written, host
\* bits included.
getNthSubnet_unmasked(supernetIp, supernetPrefix, subnetPrefix, index) ==
    IF index < 0 THEN Throw("getNthSubnet: index must be non-negative")
    ELSE IF subnetCountThrows(supernetPrefix, subnetPrefix)
    THEN Throw("subnetCount: subnet prefix must be >= supernet prefix")
    ELSE IF ~BigLt(BigInt(index), subnetCount(supernetPrefix, subnetPrefix))
    THEN Throw("getNthSubnet: index exceeds maximum")
    ELSE [ok |-> TRUE,
          ip |-> numberToIp(BigAdd(ipToNumber(supernetIp),
                                   BigMul(subnetAddressCount(subnetPrefix),
                                          BigInt(index))))]

\* getNthSubnet; the index is the integer the caller converts with BigInt().
getNthSubnet(supernetIp, supernetPrefix, subnetPrefix, index) ==
    IF index < 0 THEN Throw("getNthSubnet: index must be non-negative")
    ELSE IF subnetCountThrows(supernetPrefix, subnetPrefix)
    THEN Throw("subnetCount: subnet prefix must be >= supernet prefix")
    ELSE IF ~BigLt(BigInt(index), subnetCount(supernetPrefix, subnetPrefix))
    THEN Throw("getNthSubnet: index exceeds maximum")
    ELSE IF subnetAddressCountThrows(subnetPrefix)
    THEN Throw("subnetAddressCount: Invalid prefix")
    ELSE IF ipToNumberThrows(supernetIp)
    THEN Throw("ipToNumber: Invalid IP address")
    ELSE IF prefixToMaskThrows(supernetPrefix)
    THEN Throw("prefixToMask: Invalid prefix length")
    ELSE LET subnetSize == subnetAddressCount(subnetPrefix)
             offset == BigMul(subnetSize, BigInt(index))
             supernetNum == ipToNumber(getNetworkAddress(supernetIp, supernetPrefix))
         IN [ok |-> TRUE, ip |-> numberToIp(BigAdd(supernetNum, offset))]

\* isIpInCidr whose catch returns true.
isIpInCidr_catchTrue(ip, cidr) ==
    LET parsed == parseCIDR(cidr)
    IN IF ~parsed.ok THEN TRUE
       ELSE IF ipToNumberThrows(ip) THEN TRUE
       ELSE BigLe(ipToNumber(getNetworkAddress(parsed.ip, parsed.prefix)), ipToNumber(ip))
            /\ BigLe(ipToNumber(ip),
                     ipToNumber(getBroadcastAddress(parsed.ip, parsed.prefix)))

\* isIpInCidr with ipNum < broadcastNum in place of <=.
isIpInCidr_exclusive(ip, cidr) ==
    LET parsed == parseCIDR(cidr)
    IN IF ~parsed.ok THEN FALSE
       ELSE IF ipToNumberThrows(ip) THEN FALSE
       ELSE BigLe(ipToNumber(getNetworkAddress(parsed.ip, parsed.prefix)), ipToNumber(ip))
            /\ BigLt(ipToNumber(ip),
                     ipToNumber(getBroadcastAddress(parsed.ip, parsed.prefix)))

isIpInCidr(ip, cidr) ==
    LET parsed == parseCIDR(cidr)
    IN IF ~parsed.ok THEN FALSE
       ELSE IF ipToNumberThrows(ip) THEN FALSE
       ELSE LET network == getNetworkAddress(parsed.ip, parsed.prefix)
                broadcast == getBroadcastAddress(parsed.ip, parsed.prefix)
                ipNum == ipToNumber(ip)
            IN BigLe(ipToNumber(network), ipNum) /\ BigLe(ipNum, ipToNumber(broadcast))

\* cidrToRange
cidrToRange(cidr) ==
    LET parsed == parseCIDR(cidr)
    IN IF ~parsed.ok THEN parsed
       ELSE [ok |-> TRUE,
             range |-> [network |-> getNetworkAddress(parsed.ip, parsed.prefix),
                        broadcast |-> getBroadcastAddress(parsed.ip, parsed.prefix)]]

\* The operations that take an address and a prefix, from the call: each
\* starts with ipToNumber(ip) and prefixToMask(prefix), which throw first.
AddressOperation(operation, ip, prefix) ==
    IF ipToNumberThrows(ip) THEN Throw("ipToNumber: Invalid IP address")
    ELSE IF prefixToMaskThrows(prefix) THEN Throw("prefixToMask: Invalid prefix length")
    ELSE [ok |-> TRUE,
          value |-> CASE operation = "getNetworkAddress" -> getNetworkAddress(ip, prefix)
                      [] operation = "getBroadcastAddress" -> getBroadcastAddress(ip, prefix)
                      [] operation = "getHostRange" -> getHostRange(ip, prefix)]

\* ------------------------------------------------------------------------
\* HierarchicalAllocator
\* ------------------------------------------------------------------------

\* Number.isInteger(Math.log2(ratio)) for an integer ratio >= 1.
IsPowerOfTwo(n) == \E k \in 0..30 : 2^k = n

\* Math.log2(n) for n a power of two.
Log2(n) == CHOOSE k \in 0..30 : 2^k = n

\* Math.ceil(Math.log2(n)) for an integer n >= 1: the least k with 2^k >= n.
CeilLog2(n) == CHOOSE k \in 0..30 : 2^k >= n /\ \A j \in 0..(k-1) : 2^j < n

\* validate() with the ratio check reduced to ratio < 1.
validate_ratioNotChecked(config) ==
    IF ~parseCIDR(config.supernet).ok THEN parseCIDR(config.supernet)
    ELSE IF \E i \in 1..Len(config.regionBiases) : config.regionBiases[i].ratio < 1
    THEN Throw("validate: ratio must be a power of 2")
    ELSE IF config.vlanSize < 16 \/ config.vlanSize > 30
    THEN Throw("validate: VLAN size must be between /16 and /30")
    ELSE IF config.vlansPerSite < 1 \/ config.vlansPerSite > 256
    THEN Throw("validate: VLANs per site must be between 1 and 256")
    ELSE [ok |-> TRUE]

\* validate(): the first check that throws, in the order of the code.
validate(config) ==
    IF ~parseCIDR(config.supernet).ok THEN parseCIDR(config.supernet)
    ELSE IF \E i \in 1..Len(config.regionBiases) :
               LET ratio == config.regionBiases[i].ratio
               IN ratio < 1 \/ ~IsPowerOfTwo(ratio)
    THEN Throw("validate: ratio must be a power of 2")
    ELSE IF config.vlanSize < 16 \/ config.vlanSize > 30
    THEN Throw("validate: VLAN size must be between /16 and /30")
    ELSE IF config.vlansPerSite < 1 \/ config.vlansPerSite > 256
    THEN Throw("validate: VLANs per site must be between 1 and 256")
    ELSE [ok |-> TRUE]

\* calculateSitePrefix without the lower limit of 16.
calculateSitePrefix_noLimit(config) ==
    [ok |-> TRUE, sitePrefix |-> config.vlanSize - CeilLog2(config.vlansPerSite)]

calculateSitePrefix(config) ==
    LET bitsNeeded == CeilLog2(config.vlansPerSite)
        sitePrefix == config.vlanSize - bitsNeeded
    IN IF sitePrefix < 16
       THEN Throw("calculateSitePrefix: cannot fit VLANs in any reasonable site prefix")
       ELSE [ok |-> TRUE, sitePrefix |-> sitePrefix]

\* Sum of the ratios of regionBiases[1..n].
RECURSIVE SumRatios(_, _)
SumRatios(regionBiases, n) ==
    IF n = 0 THEN 0 ELSE SumRatios(regionBiases, n - 1) + regionBiases[n].ratio

\* calculateRegionalPrefixes that gives every region the prefix of a share of
\* ratio 1, whatever its ratio.
calculateRegionalPrefixes_equalShares(config) ==
    [i \in 1..Len(config.regionBiases) |->
        [name |-> config.regionBiases[i].name,
         prefix |-> parseCIDR(config.supernet).prefix
                       + CeilLog2(SumRatios(config.regionBiases, Len(config.regionBiases))),
         ratio |-> config.regionBiases[i].ratio]]

\* calculateRegionalPrefixes with Math.floor in place of Math.ceil for the
\* bits of the sum of the ratios.
calculateRegionalPrefixes_floorBits(config) ==
    [i \in 1..Len(config.regionBiases) |->
        [name |-> config.regionBiases[i].name,
         prefix |-> parseCIDR(config.supernet).prefix
                       + (CHOOSE k \in 0..30 :
                             /\ 2^k <= SumRatios(config.regionBiases, Len(config.regionBiases))
                             /\ SumRatios(config.regionBiases, Len(config.regionBiases)) < 2^(k + 1))
                       - Log2(config.regionBiases[i].ratio),
         ratio |-> config.regionBiases[i].ratio]]

calculateRegionalPrefixes(config) ==
    LET supPrefix == parseCIDR(config.supernet).prefix
        totalRatio == SumRatios(config.regionBiases, Len(config.regionBiases))
    IN [i \in 1..Len(config.regionBiases) |->
          LET region == config.regionBiases[i]
              bitsNeeded == CeilLog2(totalRatio)
              bitsForRegion == Log2(region.ratio)
          IN [name |-> region.name,
              prefix |-> supPrefix + bitsNeeded - bitsForRegion,
              ratio |-> region.ratio]]

\* The fields every node gets from its network address and prefix.
Block(network, prefix) ==
    [cidr |-> network \o <<"/">> \o NumberToString(prefix),
     network |-> network,
     broadcast |-> getBroadcastAddress(network, prefix),
     addressRange |-> getHostRange(network, prefix),
     prefix |-> prefix,
     totalAddresses |-> subnetAddressCount(prefix),
     usableHosts |-> usableHosts(prefix)]

\* A record r with the fields of s added.
With(r, s) ==
    [f \in DOMAIN r \cup DOMAIN s |-> IF f \in DOMAIN s THEN s[f] ELSE r[f]]

\* ChildPrefix with Math.floor in place of Math.ceil.
ChildPrefix_floor(parentPrefix, childCount) ==
    parentPrefix + (CHOOSE k \in 0..30 : 2^k <= childCount /\ childCount < 2^(k + 1))

\* childPrefix = parentPrefix + Math.ceil(Math.log2(childCount))
ChildPrefix(parentPrefix, childCount) == parentPrefix + CeilLog2(childCount)

\* splitCIDR that skips the first block of the parent: child i starts at
\* parentBase + (i + 1) x childSize.
splitCIDR_afterFirst(parentCIDR, childCount, namePrefix, parentId) ==
    IF ~parseCIDR(parentCIDR).ok THEN parseCIDR(parentCIDR)
    ELSE IF ChildPrefix(parseCIDR(parentCIDR).prefix, childCount) > 30
    THEN Throw("splitCIDR: would exceed /30")
    ELSE [ok |-> TRUE,
          children |->
            [k \in 1..childCount |->
               With(Block(numberToIp(BigAdd(ipToNumber(parseCIDR(parentCIDR).ip),
                                            BigMul(BigInt(k),
                                                   subnetAddressCount(ChildPrefix(parseCIDR(parentCIDR).prefix, childCount))))),
                          ChildPrefix(parseCIDR(parentCIDR).prefix, childCount)),
                    [id |-> <<parentId, k - 1>>,
                     name |-> <<namePrefix, k>>])]]

\* The children splitCIDR builds, for i = 0 .. childCount - 1.
splitCIDR(parentCIDR, childCount, namePrefix, parentId) ==
    LET parent == parseCIDR(parentCIDR)
        childPrefix == ChildPrefix(parent.prefix, childCount)
    IN IF ~parent.ok THEN parent
       ELSE IF childPrefix > 30 THEN Throw("splitCIDR: would exceed /30")
       ELSE LET childSize == subnetAddressCount(childPrefix)
                parentBase == ipToNumber(parent.ip)
            IN [ok |-> TRUE,
                children |->
                  [k \in 1..childCount |->
                     LET i == k - 1
                         childNetwork ==
                             numberToIp(BigAdd(parentBase, BigMul(BigInt(i), childSize)))
                     IN With(Block(childNetwork, childPrefix),
                             [id |-> <<parentId, i>>,
                              name |-> <<namePrefix, i + 1>>])]]

\* AlignRegionStart without the alignment: the region starts at the cursor.
AlignRegionStart_atCursor(currentIpNum, regionSize) == currentIpNum

\* AlignRegionStart that moves an aligned cursor too: always the multiple of
\* the region's size above the cursor.
AlignRegionStart_aboveCursor(currentIpNum, regionSize) ==
    BigAdd(BigSub(currentIpNum, BigMod(currentIpNum, regionSize)), regionSize)

\* The start of a region placed at or after the cursor: the cursor moved up to
\* the next multiple of the region's size.
AlignRegionStart(currentIpNum, regionSize) ==
    LET remainder == BigMod(currentIpNum, regionSize)
    IN IF remainder # BigInt(0)
       THEN BigAdd(BigSub(currentIpNum, remainder), regionSize)
       ELSE currentIpNum

\* The region loop of allocate(): regions i .. n placed from the cursor
\* currentIpNum on, after the regions already placed.
RECURSIVE PlaceRegions(_, _, _, _, _)
PlaceRegions(regionalPrefixes, supernetBroadcastNum, i, currentIpNum, regions) ==
    IF i > Len(regionalPrefixes)
    THEN [ok |-> TRUE, regions |-> regions, currentIpNum |-> currentIpNum]
    ELSE LET regionInfo == regionalPrefixes[i]
         IN IF subnetAddressCountThrows(regionInfo.prefix)
            THEN Throw("subnetAddressCount: Invalid prefix")
            ELSE
            LET regionSize == subnetAddressCount(regionInfo.prefix)
                regionNetworkNum == AlignRegionStart(currentIpNum, regionSize)
            IN IF BigGt(BigSub(BigAdd(regionNetworkNum, regionSize), BigInt(1)),
                        supernetBroadcastNum)
               THEN Throw("allocate: region allocation exceeds supernet capacity")
               ELSE LET regionNetwork == numberToIp(regionNetworkNum)
                        node == With(Block(regionNetwork, regionInfo.prefix),
                                     [id |-> <<"region", i - 1>>,
                                      name |-> regionInfo.name,
                                      metadata |-> [ratio |-> regionInfo.ratio]])
                    IN PlaceRegions(regionalPrefixes, supernetBroadcastNum, i + 1,
                                    BigAdd(regionNetworkNum, regionSize),
                                    Append(regions, node))

\* UnallocPrefix without the test of the remainder: the first block that is no
\* larger than the gap, aligned or not.
RECURSIVE UnallocPrefix_unaligned(_, _, _)
UnallocPrefix_unaligned(unallocPrefix, unallocatedNetworkNum, unallocatedSize) ==
    IF unallocPrefix <= 30
    THEN IF BigLe(subnetAddressCount(unallocPrefix), unallocatedSize)
         THEN unallocPrefix
         ELSE UnallocPrefix_unaligned(unallocPrefix + 1, unallocatedNetworkNum,
                                      unallocatedSize)
    ELSE unallocPrefix

\* The while loop that sizes the Unallocated node: from unallocPrefix on, the
\* first prefix <= 30 whose block is no larger than the gap and aligned at the
\* cursor; the prefix after 30 when there is none.
RECURSIVE UnallocPrefix(_, _, _)
UnallocPrefix(unallocPrefix, unallocatedNetworkNum, unallocatedSize) ==
    IF unallocPrefix <= 30
    THEN LET size == subnetAddressCount(unallocPrefix)
             remainder == BigMod(unallocatedNetworkNum, size)
         IN IF BigLe(size, unallocatedSize) /\ remainder = BigInt(0)
            THEN unallocPrefix
            ELSE UnallocPrefix(unallocPrefix + 1, unallocatedNetworkNum, unallocatedSize)
    ELSE unallocPrefix

\* sum of children[1..n].metadata.sitesCapacity
RECURSIVE SumSitesCapacity(_, _)
SumSitesCapacity(children, n) ==
    IF n = 0 THEN 0
    ELSE SumSitesCapacity(children, n - 1) + children[n].metadata.sitesCapacity

\* The inner loop over region.children: each sub-region gets its metadata.
WithSitesCapacity(children, sitePrefix) ==
    [k \in 1..Len(children) |->
       With(children[k],
            [metadata |->
               [sitesCapacity |->
                    BigToNumber(subnetCount(children[k].prefix, sitePrefix)),
                sitePrefix |-> sitePrefix]])]

\* The body of the sub-region loop for a region that is not "Unallocated",
\* given what splitCIDR returned: the region with its children and its entry
\* of the breakdown.
SplitRegion(region, split, sitePrefix, totalAvailable) ==
    IF ~split.ok THEN split
    ELSE IF \E k \in 1..Len(split.children) :
               subnetCountThrows(split.children[k].prefix, sitePrefix)
    THEN Throw("subnetCount: subnet prefix must be >= supernet prefix")
    ELSE [ok |-> TRUE,
          region |-> With(region,
                          [children |-> WithSitesCapacity(split.children, sitePrefix)]),
          regionSitesTotal |->
              SumSitesCapacity(WithSitesCapacity(split.children, sitePrefix),
                               Len(split.children)),
          percentage |-> [num |-> region.totalAddresses, den |-> totalAvailable]]

\* The sub-region loop of allocate(): regions i .. n get their children, the
\* site capacities are added up and the breakdown is extended.
RECURSIVE SplitRegions(_, _, _, _, _, _, _)
SplitRegionsNext(regions, subRegionsPerRegion, sitePrefix, totalAvailable, i, totalSitesSupported, regionBreakdown, done) ==
    IF ~done.ok THEN done
    ELSE SplitRegions([regions EXCEPT ![i] = done.region],
                      subRegionsPerRegion, sitePrefix, totalAvailable, i + 1,
                      totalSitesSupported + done.regionSitesTotal,
                      Append(regionBreakdown,
                             [name |-> done.region.name,
                              ratio |-> done.region.metadata.ratio,
                              sitesCapacity |-> done.regionSitesTotal,
                              percentage |-> done.percentage,
                              cidr |-> done.region.cidr]))

SplitRegions(regions, subRegionsPerRegion, sitePrefix, totalAvailable, i, totalSitesSupported, regionBreakdown) ==
    IF i > Len(regions)
    THEN [ok |-> TRUE, regions |-> regions,
          totalSitesSupported |-> totalSitesSupported,
          regionBreakdown |-> regionBreakdown]
    ELSE IF regions[i].name = "Unallocated"
    THEN SplitRegions([regions EXCEPT ![i] = With(regions[i], [children |-> <<>>])],
                      subRegionsPerRegion, sitePrefix, totalAvailable,
                      i + 1, totalSitesSupported, regionBreakdown)
    ELSE SplitRegionsNext(
             regions, subRegionsPerRegion, sitePrefix, totalAvailable,
             i, totalSitesSupported, regionBreakdown,
             SplitRegion(regions[i],
                         splitCIDR(regions[i].cidr, subRegionsPerRegion,
                                   <<regions[i].name, "Territory">>, regions[i].id),
                         sitePrefix, totalAvailable))

\* utilizationPercentage = (totalSitesNeeded / totalSitesSupported) * 100 is kept
\* as the fraction; x > 80 and x < 20 are decided on it. A division by zero
\* gives Infinity for a positive numerator and NaN for 0 / 0.
\* UtilizationAbove with >= in place of >.
UtilizationAbove_orEqual(u, percent) ==
    IF u.den = 0 THEN u.num > 0 ELSE u.num * 100 >= percent * u.den

UtilizationAbove(u, percent) ==
    IF u.den = 0 THEN u.num > 0 ELSE u.num * 100 > percent * u.den

UtilizationBelow(u, percent) ==
    IF u.den = 0 THEN FALSE ELSE u.num * 100 < percent * u.den

HighUtilization == "High utilization (>80%) - consider larger supernet for growth"

LowUtilization == "Low utilization (<20%) - consider smaller supernet to reduce waste"

Recommendations(utilizationPercentage) ==
    (IF UtilizationAbove(utilizationPercentage, 80) THEN <<HighUtilization>> ELSE <<>>)
    \o (IF UtilizationBelow(utilizationPercentage, 20) THEN <<LowUtilization>> ELSE <<>>)

\* list.length > 0 ? list : undefined
OrUndefined(list) ==
    IF Len(list) > 0 THEN [defined |-> TRUE, value |-> list] ELSE [defined |-> FALSE]

\* "Check for unallocated space": the regions, with the Unallocated node
\* appended when totalAllocated < totalAvailable, and the warnings.
UnallocatedNode(supernetPrefix, currentIpNum, unallocatedSize) ==
    With(Block(numberToIp(currentIpNum),
               UnallocPrefix(supernetPrefix, currentIpNum, unallocatedSize)),
         [id |-> <<"unallocated">>,
          name |-> "Unallocated",
          totalAddresses |-> unallocatedSize,
          metadata |-> [ratio |-> 0]])

\* The sum of the sizes of regions[1..n].
RECURSIVE SizesOfRegions(_, _)
SizesOfRegions(regions, n) ==
    IF n = 0 THEN BigInt(0)
    ELSE BigAdd(SizesOfRegions(regions, n - 1), regions[n].totalAddresses)

\* UnallocatedSpace that takes as allocated the sizes of the regions alone:
\* what alignment skipped counts as unallocated.
UnallocatedSpace_sizesOfRegions(supernetPrefix, regions, totalAvailable, totalAllocated, currentIpNum) ==
    IF BigLt(SizesOfRegions(regions, Len(regions)), totalAvailable)
    THEN [regions |-> Append(regions,
                             UnallocatedNode(supernetPrefix, currentIpNum,
                                             BigSub(totalAvailable,
                                                    SizesOfRegions(regions, Len(regions))))),
          warnings |-> <<[text |-> "addresses unallocated",
                          size |-> BigSub(totalAvailable,
                                          SizesOfRegions(regions, Len(regions))),
                          of |-> totalAvailable]>>]
    ELSE [regions |-> regions, warnings |-> <<>>]

UnallocatedSpace(supernetPrefix, regions, totalAvailable, totalAllocated, currentIpNum) ==
    IF BigLt(totalAllocated, totalAvailable)
    THEN [regions |-> Append(regions,
                             UnallocatedNode(supernetPrefix, currentIpNum,
                                             BigSub(totalAvailable, totalAllocated))),
          warnings |-> <<[text |-> "addresses unallocated",
                          size |-> BigSub(totalAvailable, totalAllocated),
                          of |-> totalAvailable]>>]
    ELSE [regions |-> regions, warnings |-> <<>>]

\* The value allocate() returns.
AllocationResult(config, supernetPrefix, sitePrefix, supernetNetwork, warnings, split) ==
    [ok |-> TRUE,
     hierarchy |-> With(Block(supernetNetwork, supernetPrefix),
                        [id |-> <<"root">>,
                         name |-> "Global Supernet",
                         cidr |-> config.supernet,
                         children |-> split.regions]),
     sitePrefixRecommendation |-> sitePrefix,
     totalSitesSupported |-> split.totalSitesSupported,
     totalSubnetsPerSite |-> BigToNumber(subnetCount(sitePrefix, config.vlanSize)),
     utilizationPercentage |->
         [num |-> config.totalSitesNeeded, den |-> split.totalSitesSupported],
     summary |-> [totalRegions |-> Len(config.regionBiases),
                  totalSubRegions |->
                      Len(config.regionBiases) * config.subRegionsPerRegion,
                  totalSitesSupported |-> split.totalSitesSupported,
                  vlansPerSite |-> config.vlansPerSite,
                  regionBreakdown |-> split.regionBreakdown],
     warnings |-> OrUndefined(warnings),
     recommendations |->
         OrUndefined(Recommendations([num |-> config.totalSitesNeeded,
                                      den |-> split.totalSitesSupported]))]

\* allocate() from "Level 3: Sub-regions" on.
AllocateSubRegions(config, supernetPrefix, sitePrefix, supernetNetwork, space) ==
    LET split == SplitRegions(space.regions, config.subRegionsPerRegion, sitePrefix,
                              subnetAddressCount(supernetPrefix), 1, 0, <<>>)
    IN IF ~split.ok THEN split
       ELSE AllocationResult(config, supernetPrefix, sitePrefix, supernetNetwork,
                             space.warnings, split)

\* allocate() from "Check for unallocated space" on.
AllocateUnallocated(config, supernetPrefix, sitePrefix, supernetNetwork, placed) ==
    IF ~placed.ok THEN placed
    ELSE AllocateSubRegions(
             config, supernetPrefix, sitePrefix, supernetNetwork,
             UnallocatedSpace(supernetPrefix, placed.regions,
                              subnetAddressCount(supernetPrefix),
                              BigSub(placed.currentIpNum, ipToNumber(supernetNetwork)),
                              placed.currentIpNum))

\* allocate() from "Level 2: Regions" on.
AllocateRegions(config, supernetPrefix, sitePrefix, supernetNetwork) ==
    AllocateUnallocated(
        config, supernetPrefix, sitePrefix, supernetNetwork,
        PlaceRegions(calculateRegionalPrefixes(config),
                     ipToNumber(getBroadcastAddress(supernetNetwork, supernetPrefix)),
                     1, ipToNumber(supernetNetwork), <<>>))

allocate(config) ==
    LET site == calculateSitePrefix(config)
    IN IF ~site.ok THEN site
       ELSE AllocateRegions(
                config, parseCIDR(config.supernet).prefix, site.sitePrefix,
                getNetworkAddress(Split(config.supernet, "/")[1],
                                  parseCIDR(config.supernet).prefix))

\* generateSiteExample that takes the VLANs from the sub-region instead of the
\* site.
generateSiteExample_vlansOfSubRegion(config, subRegionCIDR, siteIndex) ==
    LET site == calculateSitePrefix(config)
        subRegion == parseCIDR(subRegionCIDR)
    IN IF ~site.ok THEN site
       ELSE IF ~subRegion.ok THEN subRegion
       ELSE
       LET siteNet == getNthSubnet(subRegion.ip, subRegion.prefix, site.sitePrefix,
                                   siteIndex)
       IN IF ~siteNet.ok THEN siteNet
          ELSE With(Block(siteNet.ip, site.sitePrefix),
                    [ok |-> TRUE,
                     id |-> <<"site", siteIndex>>,
                     name |-> <<"Site", siteIndex + 1>>,
                     children |->
                       [k \in 1..config.vlansPerSite |->
                          With(Block(getNthSubnet(subRegion.ip, subRegion.prefix,
                                                  config.vlanSize, k - 1).ip,
                                     config.vlanSize),
                               [id |-> <<"site", siteIndex, "vlan", k - 1>>,
                                name |-> <<"VLAN", k>>])]])

generateSiteExample(config, subRegionCIDR, siteIndex) ==
    LET site == calculateSitePrefix(config)
        subRegion == parseCIDR(subRegionCIDR)
    IN IF ~site.ok THEN site
       ELSE IF ~subRegion.ok THEN subRegion
       ELSE
       LET sitePrefix == site.sitePrefix
           siteNet == getNthSubnet(subRegion.ip, subRegion.prefix, sitePrefix, siteIndex)
       IN IF ~siteNet.ok THEN siteNet
          ELSE
          LET siteNetwork == siteNet.ip
              vlanCount == config.vlansPerSite
              vlanNet(i) == getNthSubnet(siteNetwork, sitePrefix, config.vlanSize, i)
          IN IF \E i \in 0..(vlanCount - 1) : ~vlanNet(i).ok
             THEN vlanNet(CHOOSE i \in 0..(vlanCount - 1) :
                            ~vlanNet(i).ok /\ \A j \in 0..(i-1) : vlanNet(j).ok)
             ELSE With(Block(siteNetwork, sitePrefix),
                       [ok |-> TRUE,
                        id |-> <<"site", siteIndex>>,
                        name |-> <<"Site", siteIndex + 1>>,
                        children |->
                          [k \in 1..vlanCount |->
                             With(Block(vlanNet(k - 1).ip, config.vlanSize),
                                  [id |-> <<"site", siteIndex, "vlan", k - 1>>,
                                   name |-> <<"VLAN", k>>])]])

\* ------------------------------------------------------------------------
\* inputs
\* ------------------------------------------------------------------------

\* The dotted quad of four numbers and the CIDR text of a dotted quad and a
\* prefix, as a caller writes them.
DottedQuad(octets) == Join([i \in 1..4 |-> NumberToString(octets[i])], ".")

CidrText(octets, prefix) == DottedQuad(octets) \o <<"/">> \o NumberToString(prefix)

\* The largest number of regions of a configuration.
MaxRegions == 3

\* Root blocks: the two of the scenarios, one at the top of the address space
\* written with host bits set, and two that do not parse.
ValidSupernets ==
    {CidrText(<<10, 0, 0, 0>>, 8), CidrText(<<192, 168, 0, 0>>, 24),
     CidrText(<<255, 255, 255, 250>>, 28)}

SupernetInputs ==
    ValidSupernets \cup {CidrText(<<10, 0, 0, 256>>, 24), CidrText(<<10, 0, 0, 0>>, 33)}

RatioInputs == {1, 2, 3}

RegionNames == <<"Americas", "EMEA", "APAC", "LATAM", "Africa", "Oceania">>

RegionBiasInputs ==
    UNION {{[i \in 1..n |-> [name |-> RegionNames[i], ratio |-> ratios[i]]] :
               ratios \in [1..n -> RatioInputs]} : n \in 0..MaxRegions}

SubRegionInputs == {1, 2, 5}

VlansPerSiteInputs == {0, 1, 5, 256, 257}

VlanSizeInputs == {15, 16, 24, 30, 31}

SitesNeededInputs == {1, 4}

Configs ==
    [supernet : SupernetInputs,
     regionBiases : RegionBiasInputs,
     subRegionsPerRegion : SubRegionInputs,
     vlansPerSite : VlansPerSiteInputs,
     vlanSize : VlanSizeInputs,
     totalSitesNeeded : SitesNeededInputs]

\* Configurations for the site examples: few regions, every VLAN sizing.
SiteConfigs ==
    [supernet : {CidrText(<<10, 0, 0, 0>>, 8), CidrText(<<192, 168, 0, 0>>, 24)},
     regionBiases : {[i \in 1..Len(ratios) |->
                        [name |-> RegionNames[i], ratio |-> ratios[i]]] :
                     ratios \in {<<1>>, <<2, 1>>}},
     subRegionsPerRegion : {2},
     vlansPerSite : {1, 3, 5, 256},
     vlanSize : {16, 24, 30},
     totalSitesNeeded : {1}]

\* Sub-region texts for generateSiteExample besides the territories of the
\* allocation: a block of the root written with host bits, and a text that
\* does not parse.
SubRegionTexts == {CidrText(<<10, 1, 2, 3>>, 16), CidrText(<<10, 0, 0, 0>>, 33)}

\* Site indexes around the ends of the range 0 .. count - 1.
SiteIndexInputs(count) == {0 - 1, 0, 1, count - 1, count}

\* Addresses for the CIDRMath functions: the ends of the address space, the
\* two sides of its middle, and addresses with mixed bits.
AddressInputs ==
    {DottedQuad(<<0, 0, 0, 0>>), DottedQuad(<<255, 255, 255, 255>>),
     DottedQuad(<<127, 255, 255, 255>>), DottedQuad(<<128, 0, 0, 0>>),
     DottedQuad(<<10, 1, 2, 3>>), DottedQuad(<<192, 168, 0, 255>>)}

\* Splits of up to MaxSplitBits bits are enumerated in full.
MaxSplitBits == 3

\* The subnet prefixes tried for a supernet prefix: the one below it, for which
\* subnetCount throws, those of the splits enumerated in full, and /30 and /32.
SubnetPrefixInputs(supernetPrefix) ==
    {p \in ((supernetPrefix - 1)..(supernetPrefix + MaxSplitBits)) \cup {30, 32} :
        p >= 0 /\ p <= 32 /\ p - supernetPrefix <= 30}

\* The indexes tried: around both ends of 0 .. subnetCount - 1.
IndexInputs(supernetPrefix, subnetPrefix) ==
    IF subnetPrefix < supernetPrefix THEN {0 - 1, 0, 1}
    ELSE {0 - 1, 0, 1, 2^(subnetPrefix - supernetPrefix) - 1,
          2^(subnetPrefix - supernetPrefix)}

\* Addresses at and next to the two ends of a block: its first address, its
\* last, and, where they exist, the one before and the one after.
NeighbourInputs(cidrIp, prefix) ==
    LET first == ipToNumber(getNetworkAddress(cidrIp, prefix))
        last == ipToNumber(getBroadcastAddress(cidrIp, prefix))
    IN {numberToIp(first), numberToIp(last)}
       \cup (IF first # BigInt(0) THEN {numberToIp(BigSub(first, BigInt(1)))} ELSE {})
       \cup (IF last # Mask32 THEN {numberToIp(BigAdd(last, BigInt(1)))} ELSE {})

\* ------------------------------------------------------------------------
\* the state machine
\* ------------------------------------------------------------------------

VARIABLES
    allocator,     \* the outcome of new HierarchicalAllocator(config), once it has run
    allocation,    \* what allocate() on it returned or threw
    siteExample,   \* the last generateSiteExample() on it: arguments and outcome
    math,          \* the last call of a CIDRMath function: arguments and outcome
    regional,      \* the RegionalAllocator followed: its fields, once constructed
    regionalCall,  \* the last method call on it: arguments and outcome
    hierarchy,     \* the SubnetHierarchy followed: its config and levels
    hierarchyCall, \* the last getLevelSummary() on it: argument and outcome
    calculator,    \* the DynamicSubnetCalculator followed: its fields
    calculatorCall \* the last calculateSupernetsForSites() on it

\* The objects of the other classes of lib/, which no operation of
\* HierarchicalAllocator or CIDRMath touches.
otherObjects == <<regional, regionalCall, hierarchy, hierarchyCall, calculator, calculatorCall>>

vars == <<allocator, allocation, siteExample, math, otherObjects>>

NotCalled == [called |-> FALSE]

NoAllocator == [constructed |-> FALSE]

Init ==
    /\ allocator = NoAllocator
    /\ allocation = NotCalled
    /\ siteExample = NotCalled
    /\ math = NotCalled
    /\ regional = NoAllocator
    /\ regionalCall = NotCalled
    /\ hierarchy = NoAllocator
    /\ hierarchyCall = NotCalled
    /\ calculator = NoAllocator
    /\ calculatorCall = NotCalled

\* new HierarchicalAllocator(config), config drawn from configs: the
\* constructor stores the configuration and validates it; when validate()
\* throws there is no object. One object is followed from its construction on.
Construct(configs) ==
    /\ allocator = NoAllocator
    /\ \E config \in configs :
          allocator' =
              LET v == validate(config)
              IN IF v.ok THEN [constructed |-> TRUE, config |-> config]
                 ELSE [constructed |-> FALSE, config |-> config, error |-> v.error]
    /\ UNCHANGED <<allocation, siteExample, math, otherObjects>>

\* allocator.allocate(); the first call on the object is followed.
Allocate ==
    /\ allocator.constructed
    /\ ~allocation.called
    /\ allocation' = With(allocate(allocator.config), [called |-> TRUE])
    /\ UNCHANGED <<allocator, siteExample, math, otherObjects>>

\* The sub-region texts a caller passes: the first territory of each region of
\* the allocation, and SubRegionTexts.
TerritoryInputs ==
    SubRegionTexts \cup
    (IF allocation.called /\ allocation.ok
     THEN {allocation.hierarchy.children[r].children[1].cidr :
              r \in {q \in 1..Len(allocation.hierarchy.children) :
                        Len(allocation.hierarchy.children[q].children) > 0}}
     ELSE {})

\* allocator.generateSiteExample(subRegionCIDR, siteIndex); the first call on
\* the object is followed.
GenerateSiteExample ==
    /\ allocator.constructed
    /\ ~siteExample.called
    /\ \E subRegionCIDR \in TerritoryInputs :
       \E siteIndex \in SiteIndexInputs(
              IF parseCIDR(subRegionCIDR).ok /\ calculateSitePrefix(allocator.config).ok
                 /\ ~subnetCountThrows(parseCIDR(subRegionCIDR).prefix,
                                       calculateSitePrefix(allocator.config).sitePrefix)
              THEN BigToNumber(subnetCount(parseCIDR(subRegionCIDR).prefix,
                                           calculateSitePrefix(allocator.config).sitePrefix))
              ELSE 2) :
          siteExample' = [called |-> TRUE,
                          subRegionCIDR |-> subRegionCIDR,
                          siteIndex |-> siteIndex,
                          result |-> generateSiteExample(allocator.config,
                                                         subRegionCIDR, siteIndex)]
    /\ UNCHANGED <<allocator, allocation, math, otherObjects>>

\* CIDRMath.getNthSubnet(supernetIp, supernetPrefix, subnetPrefix, BigInt(index))
GetNthSubnet ==
    /\ math = NotCalled
    /\ \E supernetIp \in AddressInputs, supernetPrefix \in 0..32 :
       \E subnetPrefix \in SubnetPrefixInputs(supernetPrefix) :
       \E index \in IndexInputs(supernetPrefix, subnetPrefix) :
          math' = [called |-> TRUE, function |-> "getNthSubnet",
                   supernetIp |-> supernetIp, supernetPrefix |-> supernetPrefix,
                   subnetPrefix |-> subnetPrefix, index |-> index,
                   result |-> getNthSubnet(supernetIp, supernetPrefix,
                                           subnetPrefix, index)]
    /\ UNCHANGED <<allocator, allocation, siteExample, otherObjects>>

\* getNthSubnet for every index 0 .. subnetCount - 1 of one split, in order.
EnumerateSubnets ==
    /\ math = NotCalled
    /\ \E supernetIp \in AddressInputs, supernetPrefix \in 0..32 :
       \E subnetPrefix \in supernetPrefix..(supernetPrefix + MaxSplitBits) :
          /\ subnetPrefix <= 32
          /\ math' = [called |-> TRUE, function |-> "getNthSubnet, every index",
                      supernetIp |-> supernetIp, supernetPrefix |-> supernetPrefix,
                      subnetPrefix |-> subnetPrefix,
                      result |->
                        [k \in 1..BigToNumber(subnetCount(supernetPrefix, subnetPrefix)) |->
                           getNthSubnet(supernetIp, supernetPrefix, subnetPrefix, k - 1)]]
    /\ UNCHANGED <<allocator, allocation, siteExample, otherObjects>>

\* CIDRMath.isIpInCidr(ip, cidr)
IsIpInCidr ==
    /\ math = NotCalled
    /\ \E cidrIp \in AddressInputs, prefix \in 0..32 :
       \E ip \in AddressInputs \cup NeighbourInputs(cidrIp, prefix) :
          math' = [called |-> TRUE, function |-> "isIpInCidr",
                   ip |-> ip, cidr |-> cidrIp \o <<"/">> \o NumberToString(prefix),
                   result |-> isIpInCidr(ip, cidrIp \o <<"/">> \o NumberToString(prefix))]
    /\ UNCHANGED <<allocator, allocation, siteExample, otherObjects>>

\* CIDRMath.getHostRange(ip, prefix)
GetHostRange ==
    /\ math = NotCalled
    /\ \E ip \in AddressInputs, prefix \in 0..32 :
          math' = [called |-> TRUE, function |-> "getHostRange",
                   ip |-> ip, prefix |-> prefix,
                   result |-> AddressOperation("getHostRange", ip, prefix)]
    /\ UNCHANGED <<allocator, allocation, siteExample, otherObjects>>

\* The allocator over the full range of configurations.
Next ==
    \/ Construct(Configs)
    \/ Allocate

Spec == Init /\ [][Next]_vars

\* The allocator and its site examples.
NextSite ==
    \/ Construct(SiteConfigs)
    \/ Allocate
    \/ GenerateSiteExample

SpecSite == Init /\ [][NextSite]_vars

\* The functions of CIDRMath, each called once on inputs of its own.
NextMath ==
    \/ GetNthSubnet
    \/ EnumerateSubnets
    \/ IsIpInCidr
    \/ GetHostRange

SpecMath == Init /\ [][NextMath]_vars

\* ------------------------------------------------------------------------
\* properties of HierarchicalAllocator
\* ------------------------------------------------------------------------

\* allocate() has returned a result.
Returned == allocation.called /\ allocation.ok

\* The constructor has run on a configuration.
ConfigGiven == "config" \in DOMAIN allocator

\* The block a node names by its network address and prefix: its first
\* address, its size 2^(32 - prefix) and the address after its last.
BlockStart(node) == ipToNumber(node.network)
BlockSize(node) == {32 - node.prefix}
BlockEnd(node) == BigAdd(BlockStart(node), BlockSize(node))

Disjoint(a, b) ==
    BigLe(BlockEnd(a), BlockStart(b)) \/ BigLe(BlockEnd(b), BlockStart(a))

SiblingsDisjoint(nodes) ==
    \A i, j \in 1..Len(nodes) : i < j => Disjoint(nodes[i], nodes[j])

\* The network address is a multiple of 2^(32 - prefix): its low bits are 0.
Aligned(node) == \A b \in BlockStart(node) : b >= 32 - node.prefix

IsUnallocated(node) == node.name = "Unallocated"

\* The sum of the totalAddresses of nodes[1..n].
RECURSIVE SumAddresses(_, _)
SumAddresses(nodes, n) ==
    IF n = 0 THEN {} ELSE BigAdd(SumAddresses(nodes, n - 1), nodes[n].totalAddresses)

C2_PrefixesAndCapacity ==
    /\ Returned =>
          LET root == allocation.hierarchy
              sitePrefix == allocation.sitePrefixRecommendation
              config == allocator.config
          IN /\ sitePrefix <= config.vlanSize
             /\ BigLe(BigMul(BigInt(config.vlansPerSite), {32 - config.vlanSize}),
                      {32 - sitePrefix})
             /\ BigLe(SumAddresses(root.children, Len(root.children)), BlockSize(root))
             /\ \A r \in 1..Len(root.children) :
                   LET region == root.children[r]
                   IN /\ root.prefix <= region.prefix
                      /\ BigLe(SumAddresses(region.children, Len(region.children)),
                               BlockSize(region))
                      /\ \A t \in 1..Len(region.children) :
                            LET territory == region.children[t]
                            IN /\ region.prefix <= territory.prefix
                               /\ territory.prefix <= sitePrefix
                               /\ BigLe(BigMul(BigInt(territory.metadata.sitesCapacity),
                                               {32 - sitePrefix}),
                                        BlockSize(territory))
    /\ allocation.called =>
          LET config == allocator.config
              ratios == [i \in 1..Len(config.regionBiases) |-> config.regionBiases[i].ratio]
              sum == SumRatios(config.regionBiases, Len(config.regionBiases))
              territoryPrefix(i) ==
                  parseCIDR(config.supernet).prefix + CeilLog2(sum) - Log2(ratios[i])
                  + CeilLog2(config.subRegionsPerRegion)
          IN (\E i \in 1..Len(ratios) :
                 territoryPrefix(i) > config.vlanSize - CeilLog2(config.vlansPerSite))
             => ~allocation.ok

\* A tree whose prefixes grow at every level.
C2_Witness ==
    /\ Returned
    /\ allocation.sitePrefixRecommendation < allocator.config.vlanSize
    /\ \E r \in 1..Len(allocation.hierarchy.children) :
          LET region == allocation.hierarchy.children[r]
          IN /\ allocation.hierarchy.prefix < region.prefix
             /\ Len(region.children) = 5
             /\ region.prefix < region.children[1].prefix
             /\ region.children[1].prefix < allocation.sitePrefixRecommendation

\* C3: the constructor throws exactly when the root does not parse, a ratio is
\* not a positive power of two, the VLAN prefix is outside 16..30 or the VLANs
\* per site are outside 1..256; when it throws, allocate() is never called.
C3_ConstructionValidates ==
    ConfigGiven =>
        LET config == allocator.config
        IN /\ allocator.constructed <=>
                 /\ config.supernet \in ValidSupernets
                 /\ \A i \in 1..Len(config.regionBiases) :
                       config.regionBiases[i].ratio \in {2^k : k \in 0..30}
                 /\ config.vlanSize \in 16..30
                 /\ config.vlansPerSite \in 1..256
           /\ ~allocator.constructed => ~allocation.called

\* Scenario D: a ratio of 3 in an otherwise valid configuration.
C3_Witness ==
    /\ ConfigGiven
    /\ ~allocator.constructed
    /\ allocator.error = "validate: ratio must be a power of 2"
    /\ allocator.config.supernet \in ValidSupernets
    /\ allocator.config.vlanSize = 24
    /\ allocator.config.vlansPerSite = 1
    /\ \E i \in 1..Len(allocator.config.regionBiases) :
          allocator.config.regionBiases[i].ratio = 3

\* The regions of the tree that are not the Unallocated node.
Concrete(regions) == SelectSeq(regions, LAMBDA node : ~IsUnallocated(node))

\* Where placement ended: after the last placed region, at the root's network
\* address when there is none.
PlacedEnd(root) ==
    IF Concrete(root.children) = <<>> THEN BlockStart(root)
    ELSE BlockEnd(Concrete(root.children)[Len(Concrete(root.children))])

BitsFor(n) == CHOOSE k \in 0..9 : 2^k >= n /\ (k = 0 \/ 2^(k - 1) < n)

\* The site prefix a configuration asks for.
DerivedSitePrefix(config) == config.vlanSize - BitsFor(config.vlansPerSite)

SiteSizingError == "calculateSitePrefix: cannot fit VLANs in any reasonable site prefix"

\* The fields of a configuration other than vlanSize pass validate().
ValidButVlanSize(config) ==
    /\ config.supernet \in ValidSupernets
    /\ \A i \in 1..Len(config.regionBiases) :
          config.regionBiases[i].ratio \in {2^k : k \in 0..30}
    /\ config.vlansPerSite \in 1..256

\* C5 as stated: allocate() reports vlanSize - ceil(log2(vlansPerSite)), and
\* every configuration whose derived site prefix is below 16, vlanSize below 16
\* with one VLAN per site included, is failed by the site-sizing step of
\* allocate().
C5_FailsInSiteSizing ==
    /\ Returned =>
          allocation.sitePrefixRecommendation = DerivedSitePrefix(allocator.config)
    /\ (/\ ConfigGiven
        /\ ValidButVlanSize(allocator.config)
        /\ DerivedSitePrefix(allocator.config) < 16)
       => /\ allocator.constructed
          /\ allocation.called => /\ ~allocation.ok
                                  /\ allocation.error = SiteSizingError

\* C5: allocate() reports vlanSize - ceil(log2(vlansPerSite)) (24 in Scenario
\* B); a configuration the constructor accepted whose derived site prefix is
\* below 16 is failed by the site-sizing step of allocate(); a vlanSize below 16
\* is refused by the constructor, so allocate() never sees it.
C5_SitePrefix ==
    /\ Returned =>
          /\ allocation.sitePrefixRecommendation = DerivedSitePrefix(allocator.config)
          /\ (/\ allocator.config.supernet = CidrText(<<192, 168, 0, 0>>, 24)
              /\ allocator.config.vlanSize = 24
              /\ allocator.config.vlansPerSite = 1)
             => allocation.sitePrefixRecommendation = 24
    /\ (/\ allocation.called
        /\ DerivedSitePrefix(allocator.config) < 16)
       => /\ ~allocation.ok
          /\ allocation.error = SiteSizingError
    /\ (ConfigGiven /\ allocator.config.vlanSize < 16)
       => /\ ~allocator.constructed
          /\ ~allocation.called
          /\ ValidButVlanSize(allocator.config)
             => allocator.error = "validate: VLAN size must be between /16 and /30"

\* Five /16 VLANs per site: a site prefix of 13, refused by allocate().
C5_Witness ==
    /\ allocation.called
    /\ ~allocation.ok
    /\ allocation.error = SiteSizingError
    /\ allocator.config.vlanSize = 16
    /\ allocator.config.vlansPerSite = 5

\* The recommendations of a result, empty when undefined.
RecommendationsOf(result) ==
    IF result.recommendations.defined THEN result.recommendations.value ELSE <<>>

Recommends(result, text) ==
    \E i \in 1..Len(RecommendationsOf(result)) : RecommendationsOf(result)[i] = text

\* C6: a result reports totalSitesNeeded / totalSitesSupported x 100; "consider
\* larger" is recommended exactly above 80, "consider smaller" exactly below
\* 20, never both and neither at exactly 20 or 80; whether allocate() returns
\* does not depend on totalSitesNeeded.
C6_Utilization ==
    /\ Returned =>
          LET needed == allocator.config.totalSitesNeeded
              total == allocation.totalSitesSupported
          IN /\ allocation.utilizationPercentage = [num |-> needed, den |-> total]
             /\ Recommends(allocation, HighUtilization)
                   <=> (needed * 100 > 80 * total)
             /\ Recommends(allocation, LowUtilization)
                   <=> (needed * 100 < 20 * total)
             /\ Len(RecommendationsOf(allocation)) <= 1
             /\ (needed * 100 = 80 * total \/ needed * 100 = 20 * total)
                   => ~allocation.recommendations.defined
    /\ allocation.called =>
          \A needed \in SitesNeededInputs :
              allocate(With(allocator.config, [totalSitesNeeded |-> needed])).ok
                  = allocation.ok

\* Four sites needed of five supported: exactly 80, and nothing recommended.
C6_Witness ==
    /\ Returned
    /\ allocation.totalSitesSupported = 5
    /\ allocator.config.totalSitesNeeded = 4
    /\ ~allocation.recommendations.defined

\* The attributes a node stores are those of its (network, prefix) pair.
DerivedFromPair(node) ==
    /\ node.totalAddresses = {32 - node.prefix}
    /\ node.usableHosts = (IF node.prefix = 32 THEN {0}
                           ELSE IF node.prefix = 31 THEN {1}
                           ELSE BigSub({32 - node.prefix}, {1}))
    /\ ipToNumber(node.broadcast) = BigSub(BlockEnd(node), {0})

\* C7: every node of a returned tree (the root, the regions, the Unallocated
\* node, the territories) stores totalAddresses = 2^(32 - prefix), usableHosts =
\* usableHosts(prefix) and broadcast = network + 2^(32 - prefix) - 1.
C7_DerivedAttributes ==
    Returned =>
        LET root == allocation.hierarchy
        IN /\ DerivedFromPair(root)
           /\ \A r \in 1..Len(root.children) :
                 /\ DerivedFromPair(root.children[r])
                 /\ \A t \in 1..Len(root.children[r].children) :
                       DerivedFromPair(root.children[r].children[t])

\* An Unallocated node that stores the size of the whole gap: more addresses
\* than its block holds.
C7_Witness ==
    /\ Returned
    /\ \E r \in 1..Len(allocation.hierarchy.children) :
          LET node == allocation.hierarchy.children[r]
          IN /\ IsUnallocated(node)
             /\ BigGt(node.totalAddresses, BlockSize(node))

\* ------------------------------------------------------------------------
\* properties of generateSiteExample and of CIDRMath
\* ------------------------------------------------------------------------

\* The network address of the block an address and a prefix name: the address
\* with its low 32 - prefix bits cleared; the last address of the block: the
\* same with those bits set.
NetworkOf(ipNum, prefix) == {b \in ipNum : b >= 32 - prefix}
LastOf(ipNum, prefix) == NetworkOf(ipNum, prefix) \cup 0..(31 - prefix)

\* The start of the index-th block of 2^(32 - prefix) addresses from start.
NthStart(start, prefix, index) == BigAdd(start, BigShl(BigInt(index), 32 - prefix))

\* Where the VLANs of a site start, as offsets into the site (a site has at
\* most 2^16 addresses).
VlanOffsets(site) ==
    {BigToNumber(BigSub(BlockStart(site.children[i]), BlockStart(site))) :
        i \in 1..Len(site.children)}

C9_NthSubnet ==
    /\ (math.called /\ math.function = "getNthSubnet") =>
          LET network == NetworkOf(ipToNumber(math.supernetIp), math.supernetPrefix)
          IN IF math.subnetPrefix >= math.supernetPrefix
             THEN /\ math.result.ok <=>
                        /\ math.index >= 0
                        /\ math.index < 2^(math.subnetPrefix - math.supernetPrefix)
                  /\ math.result.ok =>
                        ipToNumber(math.result.ip) =
                            NthStart(network, math.subnetPrefix, math.index)
             ELSE /\ ~math.result.ok
                  /\ math.index >= 0 =>
                        math.result.error =
                            "subnetCount: subnet prefix must be >= supernet prefix"
    /\ (math.called /\ math.function = "getNthSubnet, every index") =>
          LET network == NetworkOf(ipToNumber(math.supernetIp), math.supernetPrefix)
              count == Len(math.result)
              start(k) == ipToNumber(math.result[k].ip)
              end(k) == BigAdd(start(k), {32 - math.subnetPrefix})
          IN /\ count = 2^(math.subnetPrefix - math.supernetPrefix)
             /\ \A k \in 1..count : math.result[k].ok
             /\ \A j, k \in 1..count :
                   j < k => BigLe(end(j), start(k))
             /\ start(1) = network
             /\ \A k \in 1..(count - 1) : start(k + 1) = end(k)
             /\ end(count) = BigAdd(network, {32 - math.supernetPrefix})

\* The eight /19 blocks of 10.1.2.3/16.
C9_Witness ==
    /\ math.called
    /\ math.function = "getNthSubnet, every index"
    /\ math.supernetIp = DottedQuad(<<10, 1, 2, 3>>)
    /\ math.supernetPrefix = 16
    /\ Len(math.result) = 8

\* C10: isIpInCidr(ip, c) is true exactly when network(c) <= ip <=
\* broadcast(c), which is when ip and c agree on the first prefix bits;
\* getNetworkAddress clears the low 32 - prefix bits and getBroadcastAddress
\* sets them; network(c) <= broadcast(c) and both are in c, for every prefix
\* 0..32.
C10_Contains ==
    (math.called /\ math.function = "isIpInCidr") =>
        LET c == parseCIDR(math.cidr)
            ipNum == ipToNumber(math.ip)
            network == NetworkOf(ipToNumber(c.ip), c.prefix)
            broadcast == LastOf(ipToNumber(c.ip), c.prefix)
        IN /\ ipToNumber(getNetworkAddress(c.ip, c.prefix)) = network
           /\ ipToNumber(getBroadcastAddress(c.ip, c.prefix)) = broadcast
           /\ BigLe(network, broadcast)
           /\ math.result <=> (BigLe(network, ipNum) /\ BigLe(ipNum, broadcast))
           /\ math.result <=> (NetworkOf(ipNum, c.prefix) = network)
           /\ (ipNum = network \/ ipNum = broadcast) => math.result
           /\ isIpInCidr(numberToIp(network), math.cidr)
           /\ isIpInCidr(numberToIp(broadcast), math.cidr)

\* The last address of a block written with host bits, found inside it.
C10_Witness ==
    /\ math.called
    /\ math.function = "isIpInCidr"
    /\ math.result
    /\ LET c == parseCIDR(math.cidr)
       IN /\ c.prefix \in 1..31
          /\ ipToNumber(c.ip) # NetworkOf(ipToNumber(c.ip), c.prefix)
          /\ ipToNumber(math.ip) = LastOf(ipToNumber(c.ip), c.prefix)
          /\ ipToNumber(math.ip) # ipToNumber(c.ip)

\* ------------------------------------------------------------------------
\* CIDRMath on texts: parsing, formatting, counting
\* ------------------------------------------------------------------------

\* Octets with one, two and three digits.
OctetInputs == {0, 9, 10, 255}

\* Dotted quads as numberToIp writes them.
CanonicalAddresses ==
    {DottedQuad(<<a, b, c, d>>) : a \in OctetInputs, b \in OctetInputs,
                                  c \in OctetInputs, d \in OctetInputs}

\* Dotted quads with octets written with leading zeros: 010.1.2.3, 10.01.2.003,
\* 00.0.0.0.
LeadingZeroAddresses ==
    {Join(<< <<"0", "1", "0">>, <<"1">>, <<"2">>, <<"3">> >>, "."),
     Join(<< <<"1", "0">>, <<"0", "1">>, <<"2">>, <<"0", "0", "3">> >>, "."),
     Join(<< <<"0", "0">>, <<"0">>, <<"0">>, <<"0">> >>, ".")}

\* Four pieces of which some are empty: 1..2.3, 10.0.0. and three dots alone.
EmptyOctetAddresses ==
    {Join(<< <<"1">>, <<>>, <<"2">>, <<"3">> >>, "."),
     Join(<< <<"1", "0">>, <<"0">>, <<"0">>, <<>> >>, "."),
     Join(<< <<>>, <<>>, <<>>, <<>> >>, ".")}

\* Texts that are no address: x, the empty text, three and five octets, octets
\* of 256 and -1, a letter for an octet, four letters, an address with a prefix.
MalformedAddresses ==
    {<<"x">>, <<>>,
     Join(<< <<"1">>, <<"2">>, <<"3">> >>, "."),
     Join(<< <<"1">>, <<"2">>, <<"3">>, <<"4">>, <<"5">> >>, "."),
     DottedQuad(<<256, 0, 0, 0>>), DottedQuad(<<10, 0, 0, 256>>),
     Join(<< <<"-", "1">>, <<"0">>, <<"0">>, <<"0">> >>, "."),
     Join(<< <<"1">>, <<"2">>, <<"3">>, <<"x">> >>, "."),
     Join(<< <<"a">>, <<"b">>, <<"c">>, <<"d">> >>, "."),
     CidrText(<<1, 2, 3, 4>>, 8)}

AddressTexts ==
    CanonicalAddresses \cup LeadingZeroAddresses \cup EmptyOctetAddresses
    \cup MalformedAddresses

\* CIDR texts that parse: blocks of every kind of prefix, one written with
\* leading zeros (010.0.0.0/08).
WellFormedCidrs ==
    {CidrText(<<10, 0, 0, 0>>, 8), CidrText(<<10, 1, 2, 3>>, 16),
     CidrText(<<0, 0, 0, 0>>, 0), CidrText(<<255, 255, 255, 255>>, 32),
     CidrText(<<192, 168, 0, 255>>, 31),
     Join(<< <<"0", "1", "0">>, <<"0">>, <<"0">>, <<"0">> >>, ".") \o <<"/", "0", "8">>}

\* CIDR texts that do not: bad/cidr, 10.0.0.256/24, 10.0.0.0/33, 10.0.0.0/99,
\* 999.0.0.0/8, no prefix, an empty prefix, three octets, two prefixes, a
\* negative and a three-digit prefix, a four-digit and an empty octet, a letter
\* for the prefix, and the empty text.
MalformedCidrs ==
    {<<"b", "a", "d", "/", "c", "i", "d", "r">>,
     CidrText(<<10, 0, 0, 256>>, 24), CidrText(<<10, 0, 0, 0>>, 33),
     CidrText(<<10, 0, 0, 0>>, 99), CidrText(<<999, 0, 0, 0>>, 8),
     DottedQuad(<<10, 0, 0, 0>>),
     DottedQuad(<<10, 0, 0, 0>>) \o <<"/">>,
     Join(<< <<"1", "0">>, <<"0">>, <<"0">> >>, ".") \o <<"/", "8">>,
     CidrText(<<10, 0, 0, 0>>, 8) \o <<"/", "8">>,
     DottedQuad(<<10, 0, 0, 0>>) \o <<"/", "-", "1">>,
     DottedQuad(<<10, 0, 0, 0>>) \o <<"/", "0", "0", "8">>,
     CidrText(<<1000, 0, 0, 0>>, 8),
     Join(<< <<"1", "0">>, <<>>, <<"0">>, <<"0">> >>, ".") \o <<"/", "8">>,
     DottedQuad(<<10, 0, 0, 0>>) \o <<"/", "x">>,
     <<>>}

CidrTexts == WellFormedCidrs \cup MalformedCidrs

\* Numbers below 2^32, as their one bits: the ends of every octet in every
\* combination.
NumberInputs ==
    {low \cup high : low \in SUBSET {0, 7, 8, 15}, high \in SUBSET {16, 23, 24, 31}}
    \cup {Mask32}

\* Prefixes, with the two just outside 0..32.
PrefixInputs == (0 - 1)..33

\* CIDRMath.ipToNumber(ip), and numberToIp of what it returned
IpToNumber ==
    /\ math = NotCalled
    /\ \E ip \in AddressTexts :
          math' = [called |-> TRUE, function |-> "ipToNumber", ip |-> ip,
                   result |-> IF ipToNumberThrows(ip)
                              THEN Throw("ipToNumber: Invalid IP address")
                              ELSE [ok |-> TRUE, value |-> ipToNumber(ip),
                                    back |-> numberToIp(ipToNumber(ip))]]
    /\ UNCHANGED <<allocator, allocation, siteExample, otherObjects>>

\* CIDRMath.numberToIp(num), and ipToNumber of what it returned
NumberToIp ==
    /\ math = NotCalled
    /\ \E num \in NumberInputs :
          math' = [called |-> TRUE, function |-> "numberToIp", num |-> num,
                   result |-> [ok |-> TRUE, value |-> numberToIp(num),
                               back |-> ipToNumber(numberToIp(num))]]
    /\ UNCHANGED <<allocator, allocation, siteExample, otherObjects>>

\* CIDRMath.parseCIDR(cidr)
ParseCIDR ==
    /\ math = NotCalled
    /\ \E cidr \in CidrTexts :
          math' = [called |-> TRUE, function |-> "parseCIDR", cidr |-> cidr,
                   result |-> parseCIDR(cidr)]
    /\ UNCHANGED <<allocator, allocation, siteExample, otherObjects>>

\* CIDRMath.prefixToMask(prefix)
PrefixToMask ==
    /\ math = NotCalled
    /\ \E prefix \in PrefixInputs :
          math' = [called |-> TRUE, function |-> "prefixToMask", prefix |-> prefix,
                   result |-> IF prefixToMaskThrows(prefix)
                              THEN Throw("prefixToMask: Invalid prefix length")
                              ELSE [ok |-> TRUE, value |-> prefixToMask(prefix)]]
    /\ UNCHANGED <<allocator, allocation, siteExample, otherObjects>>

\* CIDRMath.subnetAddressCount(prefix)
SubnetAddressCount ==
    /\ math = NotCalled
    /\ \E prefix \in PrefixInputs :
          math' = [called |-> TRUE, function |-> "subnetAddressCount",
                   prefix |-> prefix,
                   result |-> IF subnetAddressCountThrows(prefix)
                              THEN Throw("subnetAddressCount: Invalid prefix")
                              ELSE [ok |-> TRUE, value |-> subnetAddressCount(prefix)]]
    /\ UNCHANGED <<allocator, allocation, siteExample, otherObjects>>

\* CIDRMath.usableHosts(prefix); for a prefix other than 31 and 32 it calls
\* subnetAddressCount, which may throw.
UsableHosts ==
    /\ math = NotCalled
    /\ \E prefix \in PrefixInputs :
          math' = [called |-> TRUE, function |-> "usableHosts", prefix |-> prefix,
                   result |-> IF subnetAddressCountThrows(prefix)
                              THEN Throw("subnetAddressCount: Invalid prefix")
                              ELSE [ok |-> TRUE, value |-> usableHosts(prefix)]]
    /\ UNCHANGED <<allocator, allocation, siteExample, otherObjects>>

\* CIDRMath.isIpInCidr(ip, cidr) on texts of every kind
Contains ==
    /\ math = NotCalled
    /\ \E ip \in LeadingZeroAddresses \cup EmptyOctetAddresses \cup MalformedAddresses
                 \cup {DottedQuad(<<10, 0, 0, 9>>), DottedQuad(<<255, 255, 255, 255>>)},
          cidr \in CidrTexts :
          math' = [called |-> TRUE, function |-> "isIpInCidr, any text",
                   ip |-> ip, cidr |-> cidr, result |-> isIpInCidr(ip, cidr)]
    /\ UNCHANGED <<allocator, allocation, siteExample, otherObjects>>

\* The other operations of CIDRMath that take a text: getNetworkAddress,
\* getBroadcastAddress and getHostRange of an address, cidrToRange of a CIDR,
\* getNthSubnet of a supernet address.
TextOperation ==
    /\ math = NotCalled
    /\ \/ \E operation \in {"getNetworkAddress", "getBroadcastAddress", "getHostRange"},
             ip \in MalformedAddresses \cup {DottedQuad(<<10, 0, 0, 9>>)},
             prefix \in {0 - 1, 8, 32, 33} :
             math' = [called |-> TRUE, function |-> operation, ip |-> ip,
                      prefix |-> prefix,
                      result |-> AddressOperation(operation, ip, prefix)]
       \/ \E cidr \in CidrTexts :
             math' = [called |-> TRUE, function |-> "cidrToRange", cidr |-> cidr,
                      result |-> cidrToRange(cidr)]
       \/ \E ip \in MalformedAddresses \cup {DottedQuad(<<10, 0, 0, 9>>)} :
             math' = [called |-> TRUE, function |-> "getNthSubnet, any text",
                      ip |-> ip, result |-> getNthSubnet(ip, 8, 9, 1)]
    /\ UNCHANGED <<allocator, allocation, siteExample, otherObjects>>

\* The functions of CIDRMath that read and write texts and count addresses.
NextText ==
    \/ IpToNumber
    \/ NumberToIp
    \/ ParseCIDR
    \/ PrefixToMask
    \/ SubnetAddressCount
    \/ UsableHosts
    \/ Contains
    \/ TextOperation

SpecText == Init /\ [][NextText]_vars

\* ------------------------------------------------------------------------
\* properties of CIDRMath on texts
\* ------------------------------------------------------------------------

\* A call of the function of CIDRMath with this name has been made.
Called(function) == math.called /\ math.function = function

\* Four octets, each written with decimal digits and at most 255.
DecimalOctets(text) ==
    /\ Len(Split(text, ".")) = 4
    /\ \A i \in 1..4 :
          /\ Len(Split(text, ".")[i]) >= 1
          /\ AllDigits(Split(text, ".")[i])
          /\ DigitsValue(Split(text, ".")[i]) <= 255

\* The same with no octet written with a leading zero.
CanonicalOctets(text) ==
    /\ DecimalOctets(text)
    /\ \A i \in 1..4 : Len(Split(text, ".")[i]) = 1 \/ Split(text, ".")[i][1] # "0"

\* The scenario texts x and bad/cidr.
TextX == <<"x">>
TextBadCidr == <<"b", "a", "d", "/", "c", "i", "d", "r">>

\* C11: isIpInCidr returns a boolean for every pair of texts, false when the
\* address or the CIDR does not parse (false for "x" in "bad/cidr"); every
\* other operation given such a text throws.
C11_ContainsNeverRaises ==
    /\ Called("isIpInCidr, any text") =>
          /\ math.result \in BOOLEAN
          /\ (math.ip \in MalformedAddresses \/ math.cidr \in MalformedCidrs)
                => math.result = FALSE
    /\ (/\ math.called
        /\ math.function \in {"ipToNumber", "getNetworkAddress", "getBroadcastAddress",
                              "getHostRange", "getNthSubnet, any text"}
        /\ math.ip \in MalformedAddresses)
       => ~math.result.ok
    /\ (/\ math.called
        /\ math.function \in {"parseCIDR", "cidrToRange"}
        /\ math.cidr \in MalformedCidrs)
       => ~math.result.ok

\* Scenario C: contains("x", "bad/cidr") has returned false.
C11_Witness ==
    /\ Called("isIpInCidr, any text")
    /\ math.ip = TextX
    /\ math.cidr = TextBadCidr
    /\ math.result = FALSE

\* C12 as stated: numberToIp(ipToNumber(x)) = x for every x of four decimal
\* octets in 0..255, and ipToNumber(numberToIp(n)) = n for every n below 2^32.
C12_RoundTrip ==
    /\ (Called("ipToNumber") /\ DecimalOctets(math.ip)) =>
          /\ math.result.ok
          /\ math.result.back = math.ip
    /\ Called("numberToIp") => math.result.back = math.num

\* C12: numberToIp(ipToNumber(x)) = x for every x of four decimal octets in
\* 0..255 written without leading zeros; for an x written with leading zeros
\* it is the text of the same address without them; and
\* ipToNumber(numberToIp(n)) = n for every n below 2^32.
C12_RoundTripCanonical ==
    /\ (Called("ipToNumber") /\ DecimalOctets(math.ip)) =>
          /\ math.result.ok
          /\ CanonicalOctets(math.ip) => math.result.back = math.ip
          /\ CanonicalOctets(math.result.back)
          /\ \A i \in 1..4 : DigitsValue(Split(math.result.back, ".")[i])
                             = DigitsValue(Split(math.ip, ".")[i])
    /\ Called("numberToIp") =>
          /\ CanonicalOctets(math.result.value)
          /\ math.result.back = math.num

\* 010.1.2.3 has come back as 10.1.2.3.
C12_Witness ==
    /\ Called("ipToNumber")
    /\ math.ip = Join(<< <<"0", "1", "0">>, <<"1">>, <<"2">>, <<"3">> >>, ".")
    /\ math.result.ok
    /\ math.result.back = DottedQuad(<<10, 1, 2, 3>>)

\* A CIDR text of the strict shape, with a prefix of at most 32 and octets of
\* at most 255.
StrictCidr(text) ==
    /\ Len(Split(text, "/")) = 2
    /\ Len(Split(text, "/")[2]) \in 1..2
    /\ AllDigits(Split(text, "/")[2])
    /\ DigitsValue(Split(text, "/")[2]) <= 32
    /\ DecimalOctets(Split(text, "/")[1])
    /\ \A i \in 1..4 : Len(Split(Split(text, "/")[1], ".")[i]) <= 3

\* C13: ipToNumber throws for every text that is not four decimal octets in
\* 0..255, an empty octet included; parseCIDR throws for every text that is not
\* of the strict shape with a prefix in 0..32 and octets ipToNumber accepts
\* (10.0.0.256/24 and 10.0.0.0/33 among them); prefixToMask throws outside
\* 0..32.
C13_ParseFailures ==
    /\ (Called("ipToNumber") /\ ~DecimalOctets(math.ip)) => ~math.result.ok
    /\ (Called("parseCIDR") /\ ~StrictCidr(math.cidr)) => ~math.result.ok
    /\ (Called("prefixToMask") /\ math.prefix \notin 0..32) => ~math.result.ok

\* ipToNumber has taken 1..2.3 for the address 1.0.2.3.
C13_Witness ==
    /\ Called("ipToNumber")
    /\ math.ip = Join(<< <<"1">>, <<>>, <<"2">>, <<"3">> >>, ".")
    /\ math.result.ok
    /\ math.result.back = DottedQuad(<<1, 0, 2, 3>>)

\* C14: for every prefix p in 0..32 subnetAddressCount(p) = 2^(32 - p);
\* usableHosts(32) = 1, usableHosts(31) = 2 and, for p < 31, usableHosts(p) is
\* the number that with 2 added gives 2^(32 - p).
C14_Counts ==
    /\ (Called("subnetAddressCount") /\ math.prefix \in 0..32) =>
          /\ math.result.ok
          /\ math.result.value = {32 - math.prefix}
    /\ (Called("usableHosts") /\ math.prefix \in 0..32) =>
          /\ math.result.ok
          /\ math.prefix = 32 => math.result.value = {0}
          /\ math.prefix = 31 => math.result.value = {1}
          /\ math.prefix < 31 => BigAdd(math.result.value, {1}) = {32 - math.prefix}

\* The two usable hosts of a /31.
C14_Witness ==
    /\ Called("usableHosts")
    /\ math.prefix = 31
    /\ math.result.ok
    /\ math.result.value = {1}

\* ------------------------------------------------------------------------
\* RegionalAllocator
\* ------------------------------------------------------------------------

\* regions.reduce((sum, r) => sum + Math.pow(2, r.prefixBits), 0) for integer
\* prefixBits >= 0.
RECURSIVE SumWeights(_)
SumWeights(regions) ==
    IF Len(regions) = 0 THEN BigInt(0)
    ELSE BigAdd({regions[Len(regions)].prefixBits},
                SumWeights(SubSeq(regions, 1, Len(regions) - 1)))

\* validateBitAllocation() that compares the address counts of the regions'
\* blocks with the address count of the supernet.
RECURSIVE SumBlockSizes(_, _)
SumBlockSizes(regions, supPrefix) ==
    IF Len(regions) = 0 THEN BigInt(0)
    ELSE BigAdd(IF supPrefix + regions[Len(regions)].prefixBits > 32 THEN {33}
                ELSE {32 - supPrefix - regions[Len(regions)].prefixBits},
                SumBlockSizes(SubSeq(regions, 1, Len(regions) - 1), supPrefix))

validateBitAllocation_blockSizes(supernet, regions) ==
    IF ~parseCIDR(supernet).ok THEN parseCIDR(supernet)
    ELSE IF BigGt(SumBlockSizes(regions, parseCIDR(supernet).prefix),
                  {32 - parseCIDR(supernet).prefix})
    THEN Throw("Bit allocation exceeds supernet capacity")
    ELSE [ok |-> TRUE]

\* validateBitAllocation(): parseCIDR throws first; then the summed weights
\* are compared with Math.pow(2, 32 - supPrefix).
validateBitAllocation(supernet, regions) ==
    IF ~parseCIDR(supernet).ok THEN parseCIDR(supernet)
    ELSE IF BigGt(SumWeights(regions), {32 - parseCIDR(supernet).prefix})
    THEN Throw("Bit allocation exceeds supernet capacity")
    ELSE [ok |-> TRUE]

\* getUnallocatedBits() > 0, and its value then.
HasUnallocatedBits(supPrefix, regions) == BigGt({32 - supPrefix}, SumWeights(regions))

getUnallocatedBits(supPrefix, regions) == BigSub({32 - supPrefix}, SumWeights(regions))

\* while (Math.pow(2, 32 - unallocatedPrefix) > unallocatedBits) unallocatedPrefix++
RECURSIVE UnallocatedRegionPrefix(_, _)
UnallocatedRegionPrefix(unallocatedPrefix, unallocatedBits) ==
    IF BigGt({32 - unallocatedPrefix}, unallocatedBits)
    THEN UnallocatedRegionPrefix(unallocatedPrefix + 1, unallocatedBits)
    ELSE unallocatedPrefix

\* One entry of the allocations array. percentageOfSupernet is
\* 100 * 2^(supPrefix - prefix), kept as the exponent supPrefix - prefix.
RegionalAllocation(regionName, network, prefix, vlanPrefix, allocatedBits, supPrefix) ==
    [regionName |-> regionName,
     prefix |-> prefix,
     cidr |-> network \o <<"/">> \o NumberToString(prefix),
     network |-> network,
     broadcast |-> getBroadcastAddress(network, prefix),
     addressRange |-> getHostRange(network, prefix).first \o <<" ", "-", " ">>
                         \o getHostRange(network, prefix).last,
     capacitySubnets |-> subnetCount(prefix, vlanPrefix),
     allocatedBits |-> allocatedBits,
     percentageOfSupernet |-> [timesHundred |-> TRUE, log2 |-> supPrefix - prefix]]

\* The end of allocateRegions(): the Unallocated entry, when bits are left.
AllocateUnallocatedBits(object, supernetBase, supPrefix, allocations, currentOffset) ==
    IF ~HasUnallocatedBits(supPrefix, object.regions)
    THEN [ok |-> TRUE, allocations |-> allocations]
    ELSE IF subnetCountThrows(UnallocatedRegionPrefix(supPrefix, getUnallocatedBits(supPrefix, object.regions)), object.vlanPrefix)
    THEN Throw("subnetCount: subnet prefix must be >= supernet prefix")
    ELSE [ok |-> TRUE,
          allocations |->
             Append(allocations,
                    RegionalAllocation("Unallocated",
                                       numberToIp(BigAdd(supernetBase, currentOffset)),
                                       UnallocatedRegionPrefix(supPrefix, getUnallocatedBits(supPrefix, object.regions)),
                                       object.vlanPrefix,
                                       32 - UnallocatedRegionPrefix(supPrefix, getUnallocatedBits(supPrefix, object.regions)) - supPrefix,
                                       supPrefix))]

\* The loop of allocateRegions() from region i on: each region takes the
\* block of its prefix at the current offset, and the offset moves past it.
RECURSIVE AllocateRegionsFrom(_, _, _, _, _, _)
AllocateRegionsFrom(object, supernetBase, supPrefix, i, allocations, currentOffset) ==
    IF i > Len(object.regions)
    THEN AllocateUnallocatedBits(object, supernetBase, supPrefix, allocations, currentOffset)
    ELSE IF subnetAddressCountThrows(supPrefix + object.regions[i].prefixBits)
    THEN Throw("subnetAddressCount: Invalid prefix")
    ELSE IF subnetCountThrows(supPrefix + object.regions[i].prefixBits, object.vlanPrefix)
    THEN Throw("subnetCount: subnet prefix must be >= supernet prefix")
    ELSE AllocateRegionsFrom(object, supernetBase, supPrefix, i + 1,
             Append(allocations,
                    RegionalAllocation(object.regions[i].name,
                                       numberToIp(BigAdd(supernetBase, currentOffset)),
                                       supPrefix + object.regions[i].prefixBits,
                                       object.vlanPrefix,
                                       object.regions[i].prefixBits,
                                       supPrefix)),
             BigAdd(currentOffset, subnetAddressCount(supPrefix + object.regions[i].prefixBits)))

\* allocateRegions() on an object with the fields supernet, regions and
\* vlanPrefix; the supernet of an object has passed parseCIDR.
allocateRegions(object) ==
    AllocateRegionsFrom(object, ipToNumber(parseCIDR(object.supernet).ip),
                        parseCIDR(object.supernet).prefix, 1, <<>>, BigInt(0))

\* this.regions.find((r) => r.name === regionName): its index, 0 for none.
FindRegion(regions, regionName) ==
    IF \E i \in 1..Len(regions) : regions[i].name = regionName
    THEN CHOOSE i \in 1..Len(regions) :
            /\ regions[i].name = regionName
            /\ \A j \in 1..(i - 1) : regions[j].name # regionName
    ELSE 0

\* The regions after region.prefixBits = newPrefixBits on the region found.
WithPrefixBits(regions, i, newPrefixBits) ==
    [regions EXCEPT ![i] = [name |-> regions[i].name, prefixBits |-> newPrefixBits]]

\* Supernets of a RegionalAllocator: a /24, a /16 written with host bits set,
\* the last /24 of the address space, a /30, and two that parseCIDR rejects.
RegionalSupernets ==
    {CidrText(<<10, 0, 0, 0>>, 24), CidrText(<<10, 1, 2, 3>>, 16),
     CidrText(<<255, 255, 255, 0>>, 24), CidrText(<<10, 0, 0, 0>>, 30),
     CidrText(<<10, 0, 0, 0>>, 33), TextBadCidr}

\* The bits of a region: 0, 1 and 2, and the 8 that fill a /24 by weight.
PrefixBitsInputs == {0, 1, 2, 8}

RegionalNames == <<"A", "B", "C", "D", "E">>

\* Up to MaxRegions regions, named in order.
RegionInputs ==
    UNION {{[i \in 1..n |-> [name |-> RegionalNames[i], prefixBits |-> bits[i]]] :
               bits \in [1..n -> PrefixBitsInputs]} : n \in 0..MaxRegions}

RegionalVlanPrefixInputs == {26, 32}

\* The arguments of updateRegionBits: the first and last region by name and a
\* name no region has; bits that keep, reduce and exceed the capacity.
UpdateNameInputs(regions) ==
    {"Z"} \cup {regions[i].name : i \in {1, Len(regions)} \cap DOMAIN regions}

UpdateBitsInputs == {0, 2, 9}

\* new RegionalAllocator(supernet, regions, vlanPrefix): the constructor
\* stores its arguments and validates; when validateBitAllocation() throws
\* there is no object.
ConstructRegional ==
    /\ regional = NoAllocator
    /\ \E supernet \in RegionalSupernets, regions \in RegionInputs,
          vlanPrefix \in RegionalVlanPrefixInputs :
          regional' =
              IF validateBitAllocation(supernet, regions).ok
              THEN [constructed |-> TRUE, supernet |-> supernet,
                    regions |-> regions, vlanPrefix |-> vlanPrefix]
              ELSE [constructed |-> FALSE, supernet |-> supernet,
                    regions |-> regions, vlanPrefix |-> vlanPrefix,
                    error |-> validateBitAllocation(supernet, regions).error]
    /\ UNCHANGED <<allocator, allocation, siteExample, math, regionalCall,
                   hierarchy, hierarchyCall, calculator, calculatorCall>>

\* regional.updateRegionBits(regionName, newPrefixBits), the first call on the
\* object: an unknown name throws; otherwise the new bits are stored in the
\* region and then validated.
UpdateRegionBits ==
    /\ regional.constructed
    /\ regionalCall = NotCalled
    /\ \E regionName \in UpdateNameInputs(regional.regions),
          newPrefixBits \in UpdateBitsInputs :
          IF FindRegion(regional.regions, regionName) = 0
          THEN /\ regionalCall' =
                     [called |-> TRUE, function |-> "updateRegionBits",
                      regionName |-> regionName, newPrefixBits |-> newPrefixBits,
                      before |-> regional.regions,
                      result |-> Throw("Region not found")]
               /\ regional' = regional
          ELSE /\ regional' =
                     [regional EXCEPT !.regions =
                         WithPrefixBits(regional.regions,
                                        FindRegion(regional.regions, regionName),
                                        newPrefixBits)]
               /\ regionalCall' =
                     [called |-> TRUE, function |-> "updateRegionBits",
                      regionName |-> regionName, newPrefixBits |-> newPrefixBits,
                      before |-> regional.regions,
                      result |-> validateBitAllocation(regional.supernet,
                                    WithPrefixBits(regional.regions,
                                                   FindRegion(regional.regions, regionName),
                                                   newPrefixBits))]
    /\ UNCHANGED <<allocator, allocation, siteExample, math,
                   hierarchy, hierarchyCall, calculator, calculatorCall>>

\* regional.allocateRegions(), once on the object, before or after the
\* update.
RegionalAllocateRegions ==
    /\ regional.constructed
    /\ regionalCall.called => regionalCall.function = "updateRegionBits"
    /\ regionalCall' = [called |-> TRUE, function |-> "allocateRegions",
                        result |-> allocateRegions(regional)]
    /\ UNCHANGED <<allocator, allocation, siteExample, math, regional,
                   hierarchy, hierarchyCall, calculator, calculatorCall>>

\* The regional allocator.
NextRegional ==
    \/ ConstructRegional
    \/ UpdateRegionBits
    \/ RegionalAllocateRegions

SpecRegional == Init /\ [][NextRegional]_vars

\* ------------------------------------------------------------------------
\* Properties of RegionalAllocator
\* ------------------------------------------------------------------------

\* The sum over the regions of 2^bits, and whether it exceeds
\* 2^(32 - rootPrefix) for a root that is a CIDR text.
RECURSIVE WeightSum(_)
WeightSum(regions) ==
    IF Len(regions) = 0 THEN 0
    ELSE 2^(Head(regions).prefixBits) + WeightSum(Tail(regions))

WeightsExceed(supernet, regions) ==
    /\ StrictCidr(supernet)
    /\ WeightSum(regions) > 2^(32 - DigitsValue(Split(supernet, "/")[2]))

RegionalCalled(function) == regionalCall.called /\ regionalCall.function = function

\* The regions an updateRegionBits call asks for: the named one with the new
\* bits, the others as they were.
RegionsAsked ==
    [i \in DOMAIN regionalCall.before |->
        IF regionalCall.before[i].name = regionalCall.regionName
        THEN [name |-> regionalCall.before[i].name,
              prefixBits |-> regionalCall.newPrefixBits]
        ELSE regionalCall.before[i]]

JustConstructedRegional == regional # NoAllocator /\ regionalCall = NotCalled

\* C15 as stated: constructing a RegionalAllocator on a root that is a CIDR
\* text, and updateRegionBits, fail exactly when the sum over the regions of
\* 2^bits exceeds 2^(32 - rootPrefix).
C15_FailExactlyOnWeights ==
    /\ JustConstructedRegional /\ StrictCidr(regional.supernet) =>
          (~regional.constructed <=> WeightsExceed(regional.supernet, regional.regions))
    /\ RegionalCalled("updateRegionBits") =>
          (~regionalCall.result.ok <=> WeightsExceed(regional.supernet, RegionsAsked))

\* C15: for a root that parseCIDR accepts, constructing a RegionalAllocator
\* fails exactly when the sum over the regions of 2^bits exceeds
\* 2^(32 - rootPrefix), and a root that parseCIDR rejects fails in parseCIDR;
\* updateRegionBits fails exactly when no region has the name or the sum with
\* the new bits exceeds 2^(32 - rootPrefix). The sum is of the weights 2^bits,
\* whatever the address counts of the blocks.
C15_FailOnWeights ==
    /\ JustConstructedRegional =>
          /\ ~regional.constructed <=>
                (~StrictCidr(regional.supernet)
                    \/ WeightsExceed(regional.supernet, regional.regions))
          /\ ~regional.constructed =>
                (regional.error = "Bit allocation exceeds supernet capacity"
                    <=> WeightsExceed(regional.supernet, regional.regions))
    /\ RegionalCalled("updateRegionBits") =>
          /\ ~regionalCall.result.ok <=>
                \/ \A i \in DOMAIN regionalCall.before :
                      regionalCall.before[i].name # regionalCall.regionName
                \/ WeightsExceed(regional.supernet, RegionsAsked)
          /\ ~regionalCall.result.ok =>
                (regionalCall.result.error = "Bit allocation exceeds supernet capacity"
                    <=> WeightsExceed(regional.supernet, RegionsAsked))

\* Two regions of 0 bits in 10.0.0.0/24 are accepted, each later given a /24
\* of its own; raising one of them to 9 bits is refused.
C15_Witness ==
    /\ regional.constructed
    /\ regional.supernet = CidrText(<<10, 0, 0, 0>>, 24)
    /\ RegionalCalled("updateRegionBits")
    /\ Len(regionalCall.before) = 2
    /\ \A i \in 1..2 : regionalCall.before[i].prefixBits = 0
    /\ regionalCall.newPrefixBits = 9
    /\ ~regionalCall.result.ok
    /\ regionalCall.result.error = "Bit allocation exceeds supernet capacity"

\* The root block of the regional allocator: its network address and the
\* address after its last.
RegionalRootStart ==
    BigAnd(ipToNumber(Split(regional.supernet, "/")[1]),
           prefixToMask(DigitsValue(Split(regional.supernet, "/")[2])))

RegionalRootEnd ==
    BigAdd(RegionalRootStart, {32 - DigitsValue(Split(regional.supernet, "/")[2])})

RECURSIVE SumBlocks(_)
SumBlocks(blocks) ==
    IF Len(blocks) = 0 THEN BigInt(0)
    ELSE BigAdd(BlockSize(Head(blocks)), SumBlocks(Tail(blocks)))

\* allocateRegions() has returned on an object whose regions pass validation.
RegionsReturned ==
    /\ RegionalCalled("allocateRegions")
    /\ ~WeightsExceed(regional.supernet, regional.regions)
    /\ regionalCall.result.ok

\* The addresses an entry's CIDR denotes: from the network address of its
\* text, host bits cleared, to its broadcast address.
EntryBlock(entry) ==
    [network |-> getNetworkAddress(entry.network, entry.prefix), prefix |-> entry.prefix]

EntryBlocks == [i \in DOMAIN regionalCall.result.allocations |-> EntryBlock(regionalCall.result.allocations[i])]

\* C16: for every RegionalAllocator configuration that passes validation, the
\* blocks allocateRegions() returns, the regions and the trailing Unallocated
\* block, lie inside the root block, are pairwise disjoint, and hold together
\* no more addresses than the root.
C16_BlocksWithinRoot ==
    RegionsReturned =>
        /\ \A i \in DOMAIN EntryBlocks :
              /\ BigLe(RegionalRootStart, BlockStart(EntryBlocks[i]))
              /\ BigLe(BlockEnd(EntryBlocks[i]), RegionalRootEnd)
        /\ SiblingsDisjoint(EntryBlocks)
        /\ BigLe(SumBlocks(EntryBlocks), BlockSize([prefix |-> DigitsValue(Split(regional.supernet, "/")[2])]))

\* Two regions of 0 bits in 10.0.0.0/24, validated at construction: the
\* second is 10.0.1.0/24, and an Unallocated 10.0.2.0/25 follows.
C16_Witness ==
    /\ RegionsReturned
    /\ regionalCall.result.ok
    /\ regional.supernet = CidrText(<<10, 0, 0, 0>>, 24)
    /\ Len(regional.regions) = 2
    /\ \A i \in 1..2 : regional.regions[i].prefixBits = 0
    /\ Len(regionalCall.result.allocations) = 3
    /\ regionalCall.result.allocations[2].cidr = CidrText(<<10, 0, 1, 0>>, 24)
    /\ regionalCall.result.allocations[3].regionName = "Unallocated"
    /\ regionalCall.result.allocations[3].cidr = CidrText(<<10, 0, 2, 0>>, 25)

\* ------------------------------------------------------------------------
\* SubnetHierarchy
\* ------------------------------------------------------------------------
\* config.levels[k] of the source is config.levels[k + 1] here, and
\* this.levels[k] is levels[k + 1]: sequences start at 1.

\* One SubnetLevel record.
SubnetLevel(name, network, cidr, prefix, nextPrefix) ==
    [name |-> name,
     prefix |-> prefix,
     cidr |-> cidr,
     networkAddress |-> network,
     broadcastAddress |-> getBroadcastAddress(network, prefix),
     totalAddresses |-> subnetAddressCount(prefix),
     usableHosts |-> usableHosts(prefix),
     childCount |-> subnetCount(prefix, nextPrefix)]

\* Level 0: the supernet itself, its children counted at the prefix of
\* config.levels[1].
SupernetLevel(config) ==
    <<SubnetLevel("Supernet",
                  getNetworkAddress(parseCIDR(config.supernet).ip,
                                    parseCIDR(config.supernet).prefix),
                  config.supernet,
                  parseCIDR(config.supernet).prefix,
                  config.levels[2].prefix)>>

\* The prefix of the level after level levelIdx, or its own for the last.
NextLevelPrefix(config, levelIdx) ==
    IF levelIdx + 1 < Len(config.levels) THEN config.levels[levelIdx + 2].prefix
    ELSE config.levels[levelIdx + 1].prefix

\* What the body of the level loop throws first for level levelIdx >= 1, ""
\* for nothing: subnetCount of the parent and current prefix, then inside
\* getNthSubnet, then subnetCount of the current and next prefix.
LevelError(config, levelIdx) ==
    IF subnetCountThrows(config.levels[levelIdx].prefix, config.levels[levelIdx + 1].prefix)
    THEN "subnetCount: subnet prefix must be >= supernet prefix"
    ELSE IF subnetAddressCountThrows(config.levels[levelIdx + 1].prefix)
    THEN "subnetAddressCount: Invalid prefix"
    ELSE IF prefixToMaskThrows(config.levels[levelIdx].prefix)
    THEN "prefixToMask: Invalid prefix length"
    ELSE IF subnetCountThrows(config.levels[levelIdx + 1].prefix, NextLevelPrefix(config, levelIdx))
    THEN "subnetCount: subnet prefix must be >= supernet prefix"
    ELSE ""

\* SubnetLevel j of level levelIdx: child (j - 1) % subnetsPerParent of parent
\* (j - 1) \div subnetsPerParent, split at the prefix of config.levels[levelIdx - 1].
ChildSubnet(config, levelIdx, parents, subnetsPerParent, j) ==
    SubnetLevel([level |-> config.levels[levelIdx + 1].name, number |-> j],
                getNthSubnet(parents[((j - 1) \div subnetsPerParent) + 1].networkAddress,
                             config.levels[levelIdx].prefix,
                             config.levels[levelIdx + 1].prefix,
                             (j - 1) % subnetsPerParent).ip,
                getNthSubnet(parents[((j - 1) \div subnetsPerParent) + 1].networkAddress,
                             config.levels[levelIdx].prefix,
                             config.levels[levelIdx + 1].prefix,
                             (j - 1) % subnetsPerParent).ip
                    \o <<"/">> \o NumberToString(config.levels[levelIdx + 1].prefix),
                config.levels[levelIdx + 1].prefix,
                NextLevelPrefix(config, levelIdx))

\* this.levels[levelIdx] from this.levels[levelIdx - 1].
ChildLevel(config, levelIdx, parents, subnetsPerParent) ==
    [j \in 1..(Len(parents) * subnetsPerParent) |->
        ChildSubnet(config, levelIdx, parents, subnetsPerParent, j)]

\* The loop over levelIdx, from levelIdx on, with this.levels so far.
RECURSIVE LevelsFrom(_, _, _)
LevelsFrom(config, levelIdx, levels) ==
    IF levelIdx >= Len(config.levels) THEN [ok |-> TRUE, levels |-> levels]
    ELSE IF LevelError(config, levelIdx) # "" THEN Throw(LevelError(config, levelIdx))
    ELSE LevelsFrom(config, levelIdx + 1,
             Append(levels,
                    ChildLevel(config, levelIdx, levels[levelIdx],
                               BigToNumber(subnetCount(config.levels[levelIdx].prefix,
                                                       config.levels[levelIdx + 1].prefix)))))

\* calculateHierarchy(): parseCIDR throws first; reading the prefix of
\* config.levels[1] is a TypeError when there are fewer than two levels.
calculateHierarchy(config) ==
    IF ~parseCIDR(config.supernet).ok THEN parseCIDR(config.supernet)
    ELSE IF Len(config.levels) < 2
    THEN Throw("TypeError: config.levels[1] is undefined")
    ELSE IF subnetCountThrows(parseCIDR(config.supernet).prefix, config.levels[2].prefix)
    THEN Throw("subnetCount: subnet prefix must be >= supernet prefix")
    ELSE LevelsFrom(config, 1, <<SupernetLevel(config)>>)

\* getLevel(levelIndex): this.levels[levelIndex] || []
getLevel(object, levelIndex) ==
    IF levelIndex + 1 \in DOMAIN object.levels THEN object.levels[levelIndex + 1] ELSE <<>>

\* level.reduce((sum, subnet) => sum + subnet.totalAddresses, BigInt(0))
RECURSIVE TotalAddresses(_, _)
TotalAddresses(level, n) ==
    IF n = 0 THEN BigInt(0) ELSE BigAdd(TotalAddresses(level, n - 1), level[n].totalAddresses)

\* a / b for bigints a >= 0 and b > 0, rounded down: long division from the
\* highest bit k of the quotient.
RECURSIVE BigDivFrom(_, _, _)
BigDivFrom(a, b, k) ==
    IF k < 0 THEN {}
    ELSE IF BigLe(BigShl(b, k), a)
    THEN {k} \cup BigDivFrom(BigSub(a, BigShl(b, k)), b, k - 1)
    ELSE BigDivFrom(a, b, k - 1)

BigDiv(a, b) == IF a = {} THEN {} ELSE BigDivFrom(a, b, Max(a))

\* getLevelSummary(levelIndex): averageUsableHosts is totalAddresses divided
\* by the number of subnets.
getLevelSummary(object, levelIndex) ==
    IF Len(getLevel(object, levelIndex)) = 0
    THEN [levelName |-> "", totalSubnets |-> BigInt(0),
          totalAddresses |-> BigInt(0), averageUsableHosts |-> BigInt(0)]
    ELSE [levelName |-> object.config.levels[levelIndex + 1].name,
          totalSubnets |-> BigInt(Len(getLevel(object, levelIndex))),
          totalAddresses |-> TotalAddresses(getLevel(object, levelIndex),
                                            Len(getLevel(object, levelIndex))),
          averageUsableHosts |->
              IF TotalAddresses(getLevel(object, levelIndex),
                                Len(getLevel(object, levelIndex))) # {}
              THEN BigDiv(TotalAddresses(getLevel(object, levelIndex),
                                         Len(getLevel(object, levelIndex))),
                          BigInt(Len(getLevel(object, levelIndex))))
              ELSE BigInt(0)]

\* The largest number of entries of config.levels.
MaxLevels == 3

HierarchySupernets ==
    {CidrText(<<10, 0, 0, 0>>, 8), CidrText(<<10, 1, 2, 3>>, 16),
     CidrText(<<192, 168, 0, 0>>, 30), TextBadCidr}

\* The prefix of each level against the one before: below, equal, one and two
\* bits longer; config.levels[0] against the supernet's: below, equal, one
\* bit longer.
PrefixSteps == {-1, 0, 1, 2}

HierarchyLevelNames == <<"Supernet", "Region", "Site", "VLAN", "Host">>

\* The prefix n steps give from a first prefix: level k has the sum of the
\* first k steps added.
RECURSIVE StepSum(_, _)
StepSum(steps, k) == IF k = 0 THEN 0 ELSE steps[k] + StepSum(steps, k - 1)

LevelInputs(supPrefix) ==
    UNION {{[k \in 1..n |-> [name |-> HierarchyLevelNames[k],
                             prefix |-> supPrefix + StepSum(steps, k)]] :
               steps \in {s \in [1..n -> PrefixSteps] : s[1] # 2}} : n \in 1..MaxLevels}

\* The prefix a supernet text is written with, 8 for one without.
WrittenPrefix(supernet) ==
    IF StrictCidr(supernet) THEN DigitsValue(Split(supernet, "/")[2]) ELSE 8

HierarchyLevelIndexInputs == 0..(MaxLevels + 1)

\* The configurations a SubnetHierarchy is constructed from.
HierarchyConfigs ==
    UNION {{[supernet |-> supernet, levels |-> levels] :
               levels \in LevelInputs(WrittenPrefix(supernet))} :
           supernet \in HierarchySupernets}

\* new SubnetHierarchy(config): the constructor stores the config and
\* calculates the levels; when calculateHierarchy() throws there is no object.
ConstructHierarchyFrom(configs) ==
    /\ hierarchy = NoAllocator
    /\ \E config \in configs :
          hierarchy' =
              IF calculateHierarchy(config).ok
              THEN [constructed |-> TRUE,
                    config |-> config,
                    levels |-> calculateHierarchy(config).levels]
              ELSE [constructed |-> FALSE,
                    config |-> config,
                    error |-> calculateHierarchy(config).error]
    /\ UNCHANGED <<allocator, allocation, siteExample, math, regional, regionalCall,
                   hierarchyCall, calculator, calculatorCall>>

ConstructHierarchy == ConstructHierarchyFrom(HierarchyConfigs)

\* hierarchy.getLevelSummary(levelIndex), the first call on the object.
GetLevelSummary ==
    /\ hierarchy.constructed
    /\ hierarchyCall = NotCalled
    /\ \E levelIndex \in HierarchyLevelIndexInputs :
          hierarchyCall' = [called |-> TRUE, levelIndex |-> levelIndex,
                            result |-> getLevelSummary(hierarchy, levelIndex)]
    /\ UNCHANGED <<allocator, allocation, siteExample, math, regional, regionalCall,
                   hierarchy, calculator, calculatorCall>>

\* The subnet hierarchy.
NextHierarchy ==
    \/ ConstructHierarchy
    \/ GetLevelSummary

SpecHierarchy == Init /\ [][NextHierarchy]_vars

\* ------------------------------------------------------------------------
\* Properties of SubnetHierarchy
\* ------------------------------------------------------------------------

\* The block of a SubnetLevel record, and the root block of the hierarchy.
LevelBlock(subnet) == [network |-> subnet.networkAddress, prefix |-> subnet.prefix]

LevelBlocks(level) == [j \in DOMAIN level |-> LevelBlock(level[j])]

HierarchyRoot ==
    [network |-> numberToIp(BigAnd(ipToNumber(Split(hierarchy.config.supernet, "/")[1]),
                                   prefixToMask(WrittenPrefix(hierarchy.config.supernet)))),
     prefix |-> WrittenPrefix(hierarchy.config.supernet)]

Within(inner, outer) ==
    /\ BigLe(BlockStart(outer), BlockStart(inner))
    /\ BigLe(BlockEnd(inner), BlockEnd(outer))

\* Level L >= 1 of the hierarchy has 2^(prefix_L - rootPrefix) subnets,
\* pairwise disjoint, each inside a subnet of level L - 1 and inside the root.
LevelPartitionsRoot(L) ==
    /\ Len(getLevel(hierarchy, L)) = 2^(hierarchy.config.levels[L + 1].prefix - HierarchyRoot.prefix)
    /\ \A j \in DOMAIN getLevel(hierarchy, L) :
          getLevel(hierarchy, L)[j].prefix = hierarchy.config.levels[L + 1].prefix
    /\ SiblingsDisjoint(LevelBlocks(getLevel(hierarchy, L)))
    /\ \A j \in DOMAIN getLevel(hierarchy, L) :
          /\ Within(LevelBlock(getLevel(hierarchy, L)[j]), HierarchyRoot)
          /\ \E k \in DOMAIN getLevel(hierarchy, L - 1) :
                Within(LevelBlock(getLevel(hierarchy, L)[j]),
                       LevelBlock(getLevel(hierarchy, L - 1)[k]))

\* C17: every level L >= 1 of a SubnetHierarchy holds exactly
\* 2^(prefix_L - rootPrefix) subnets, pairwise disjoint, each inside one
\* subnet of level L - 1, together covering the root block exactly (that many
\* disjoint blocks of prefix_L inside the root are the whole root); level 0 is
\* the root block alone, its childCount the number of level-1 subnets.
C17_LevelsPartitionRoot ==
    hierarchy.constructed =>
        /\ Len(hierarchy.levels) = Len(hierarchy.config.levels)
        /\ Len(getLevel(hierarchy, 0)) = 1
        /\ LevelBlock(getLevel(hierarchy, 0)[1]) = HierarchyRoot
        /\ getLevel(hierarchy, 0)[1].childCount = BigInt(Len(getLevel(hierarchy, 1)))
        /\ \A L \in 1..(Len(hierarchy.config.levels) - 1) : LevelPartitionsRoot(L)

\* In 10.0.0.0/8 with levels of prefix 9 and 10, level 1 is the two /10 of
\* 10.0.0.0/9, and level 0 counts four children.
C17_Witness ==
    /\ hierarchy.constructed
    /\ hierarchy.config.supernet = CidrText(<<10, 0, 0, 0>>, 8)
    /\ Len(hierarchy.config.levels) = 2
    /\ hierarchy.config.levels[1].prefix = 9
    /\ hierarchy.config.levels[2].prefix = 10
    /\ Len(getLevel(hierarchy, 1)) = 2
    /\ getLevel(hierarchy, 1)[2].cidr = CidrText(<<10, 64, 0, 0>>, 10)
    /\ getLevel(hierarchy, 0)[1].childCount = BigInt(4)

\* C18: getLevelSummary(L) reports for an existing level L the number of its
\* subnets, the sum of their address counts, and as averageUsableHosts the
\* mean of usableHosts over its subnets, which is usableHosts(prefix_L), under
\* the level's configured name; for an index with no subnets it reports zero
\* counts and an empty name.
C18_LevelSummary ==
    hierarchyCall.called =>
        IF Len(getLevel(hierarchy, hierarchyCall.levelIndex)) = 0
        THEN /\ hierarchyCall.result.levelName = ""
             /\ hierarchyCall.result.totalSubnets = BigInt(0)
             /\ hierarchyCall.result.totalAddresses = BigInt(0)
             /\ hierarchyCall.result.averageUsableHosts = BigInt(0)
        ELSE /\ hierarchyCall.result.levelName =
                    hierarchy.config.levels[hierarchyCall.levelIndex + 1].name
             /\ hierarchyCall.result.totalSubnets =
                    BigInt(Len(getLevel(hierarchy, hierarchyCall.levelIndex)))
             /\ hierarchyCall.result.totalAddresses =
                    SumBlocks(LevelBlocks(getLevel(hierarchy, hierarchyCall.levelIndex)))
             /\ \A j \in DOMAIN getLevel(hierarchy, hierarchyCall.levelIndex) :
                    hierarchyCall.result.averageUsableHosts =
                        usableHosts(getLevel(hierarchy, hierarchyCall.levelIndex)[j].prefix)

\* The four /10 of 10.0.0.0/8, each of 4194302 usable hosts: the summary of
\* level 1 gives 4194304, the address count of a /10.
C18_Witness ==
    /\ hierarchyCall.called
    /\ hierarchyCall.levelIndex = 1
    /\ hierarchy.config.supernet = CidrText(<<10, 0, 0, 0>>, 8)
    /\ hierarchy.config.levels[1].prefix = 8
    /\ hierarchy.config.levels[2].prefix = 10
    /\ Len(getLevel(hierarchy, 1)) = 4
    /\ \A j \in 1..4 : getLevel(hierarchy, 1)[j].usableHosts = BigSub({22}, BigInt(2))
    /\ hierarchyCall.result.averageUsableHosts = {22}
    /\ hierarchyCall.result.totalAddresses = {24}

\* ------------------------------------------------------------------------
\* DynamicSubnetCalculator
\* ------------------------------------------------------------------------

\* validate(): parseCIDR throws first; then the VLAN prefix must not be below
\* the supernet's prefix.
validateCalculator(supernet, vlanPrefix) ==
    IF ~parseCIDR(supernet).ok THEN parseCIDR(supernet)
    ELSE IF vlanPrefix < parseCIDR(supernet).prefix
    THEN Throw("validate: VLAN prefix must be >= supernet prefix")
    ELSE [ok |-> TRUE]

\* What getSnapshot() throws first, "" for nothing: parseCIDR, subnetCount,
\* then subnetAddressCount inside usableHosts.
SnapshotError(object) ==
    IF ~parseCIDR(object.supernet).ok THEN parseCIDR(object.supernet).error
    ELSE IF subnetCountThrows(parseCIDR(object.supernet).prefix, object.vlanPrefix)
    THEN "subnetCount: subnet prefix must be >= supernet prefix"
    ELSE IF object.vlanPrefix \notin {31, 32} /\ subnetAddressCountThrows(object.vlanPrefix)
    THEN "subnetAddressCount: Invalid prefix"
    ELSE ""

\* The while loop of calculateSupernetsForSites from testPrefix on: it stops
\* at 32, or at the first prefix whose block holds subnetsNeeded subnets of
\* the VLAN prefix, and otherwise goes on to the next longer prefix.
RECURSIVE SearchPrefix(_, _, _)
SearchPrefix(testPrefix, vlanPrefix, subnetsNeeded) ==
    IF ~(testPrefix < 32) THEN [ok |-> TRUE, testPrefix |-> testPrefix]
    ELSE IF subnetCountThrows(testPrefix, vlanPrefix)
    THEN Throw("subnetCount: subnet prefix must be >= supernet prefix")
    ELSE IF ~BigLt(subnetCount(testPrefix, vlanPrefix), subnetsNeeded)
    THEN [ok |-> TRUE, testPrefix |-> testPrefix]
    ELSE SearchPrefix(testPrefix + 1, vlanPrefix, subnetsNeeded)

\* The return statement: the recommendation text counts the subnets again.
SearchResult(object, found, siteCount, growthBuffer) ==
    IF ~found.ok THEN found
    ELSE IF subnetCountThrows(found.testPrefix, object.vlanPrefix)
    THEN Throw("subnetCount: subnet prefix must be >= supernet prefix")
    ELSE [ok |-> TRUE,
          requiredPrefix |-> found.testPrefix,
          recommendation |-> [siteCount |-> siteCount, growthBuffer |-> growthBuffer,
                              prefix |-> found.testPrefix,
                              subnets |-> subnetCount(found.testPrefix, object.vlanPrefix)]]

\* calculateSupernetsForSites(siteCount, growthBuffer). The growth buffer is
\* a number of halves (3 for 1.5), so siteCount * growthBuffer is
\* siteCount * halves / 2, and BigInt() of it throws unless it is an integer.
calculateSupernetsForSites(object, siteCount, growthBuffer) ==
    IF ~parseCIDR(object.supernet).ok THEN parseCIDR(object.supernet)
    ELSE IF SnapshotError(object) # "" THEN Throw(SnapshotError(object))
    ELSE IF (siteCount * growthBuffer.halves) % 2 # 0
    THEN Throw("BigInt: RangeError, not an integer")
    ELSE SearchResult(object,
                      SearchPrefix(parseCIDR(object.supernet).prefix, object.vlanPrefix,
                                   BigInt((siteCount * growthBuffer.halves) \div 2)),
                      siteCount, growthBuffer)

CalculatorSupernets ==
    {CidrText(<<10, 0, 0, 0>>, 8), CidrText(<<10, 0, 0, 0>>, 24),
     CidrText(<<10, 0, 0, 0>>, 30), CidrText(<<10, 0, 0, 0>>, 32), TextBadCidr}

CalculatorVlanPrefixInputs == {7, 24, 26, 31, 32, 33}

SiteCountInputs == {1, 2, 3, 100}

\* Growth buffers 1, 1.5, 2 (the default) and 3.
GrowthBufferInputs == {[halves |-> h] : h \in {2, 3, 4, 6}}

\* new DynamicSubnetCalculator(supernet, vlanPrefix): the constructor stores
\* its arguments and validates; when validate() throws there is no object.
ConstructCalculator ==
    /\ calculator = NoAllocator
    /\ \E supernet \in CalculatorSupernets, vlanPrefix \in CalculatorVlanPrefixInputs :
          calculator' =
              IF validateCalculator(supernet, vlanPrefix).ok
              THEN [constructed |-> TRUE, supernet |-> supernet, vlanPrefix |-> vlanPrefix]
              ELSE [constructed |-> FALSE, supernet |-> supernet, vlanPrefix |-> vlanPrefix,
                    error |-> validateCalculator(supernet, vlanPrefix).error]
    /\ UNCHANGED <<allocator, allocation, siteExample, math, regional, regionalCall,
                   hierarchy, hierarchyCall, calculatorCall>>

\* calculator.calculateSupernetsForSites(siteCount, growthBuffer), the first
\* call on the object.
CalculateSupernetsForSites ==
    /\ calculator.constructed
    /\ calculatorCall = NotCalled
    /\ \E siteCount \in SiteCountInputs, growthBuffer \in GrowthBufferInputs :
          calculatorCall' =
              [called |-> TRUE, siteCount |-> siteCount, growthBuffer |-> growthBuffer,
               result |-> calculateSupernetsForSites(calculator, siteCount, growthBuffer)]
    /\ UNCHANGED <<allocator, allocation, siteExample, math, regional, regionalCall,
                   hierarchy, hierarchyCall, calculator>>

\* The dynamic subnet calculator.
NextCalculator ==
    \/ ConstructCalculator
    \/ CalculateSupernetsForSites

SpecCalculator == Init /\ [][NextCalculator]_vars

\* ------------------------------------------------------------------------
\* Properties of DynamicSubnetCalculator
\* ------------------------------------------------------------------------

CurrentPrefix == DigitsValue(Split(calculator.supernet, "/")[2])

\* C19: calculateSupernetsForSites(siteCount, growthBuffer) returns, for every
\* positive site count and every held root and VLAN prefix, a requiredPrefix
\* between the current prefix and 32 whose block holds at least
\* siteCount x growthBuffer subnets of the VLAN prefix:
\* 2^(vlanPrefix - requiredPrefix) >= siteCount x growthBuffer. The projected
\* count siteCount x growthBuffer is taken to be an integer.
C19_RequiredPrefix ==
    calculatorCall.called /\ (calculatorCall.siteCount * calculatorCall.growthBuffer.halves) % 2 = 0 =>
        /\ calculatorCall.result.ok
        /\ calculatorCall.result.requiredPrefix >= CurrentPrefix
        /\ calculatorCall.result.requiredPrefix <= 32
        /\ calculator.vlanPrefix >= calculatorCall.result.requiredPrefix
        /\ 2 * 2^(calculator.vlanPrefix - calculatorCall.result.requiredPrefix)
              >= calculatorCall.siteCount * calculatorCall.growthBuffer.halves

\* 3 sites with the default buffer of 2 in 10.0.0.0/24 with /26 VLANs: the
\* /24 holds 4 subnets, fewer than 6, the search goes on to /25 and /26, and
\* at /27 subnetCount throws.
C19_Witness ==
    /\ calculatorCall.called
    /\ calculator.supernet = CidrText(<<10, 0, 0, 0>>, 24)
    /\ calculator.vlanPrefix = 26
    /\ calculatorCall.siteCount = 3
    /\ calculatorCall.growthBuffer.halves = 4
    /\ ~calculatorCall.result.ok
    /\ calculatorCall.result.error = "subnetCount: subnet prefix must be >= supernet prefix"

\* ------------------------------------------------------------------------
\* Placement of the regions by allocate()
\* ------------------------------------------------------------------------

\* Placement counted in units of the smallest share: with bitsNeeded the bits
\* for the sum of the ratios, the root holds 2^bitsNeeded units and a region of
\* ratio r takes r of them. UnitsStart is the smallest multiple of the ratio of
\* region i at or after the end of region i - 1, UnitsEnd the end of region i.
RECURSIVE UnitsEnd(_, _)
UnitsStart(regionBiases, i) ==
    ((UnitsEnd(regionBiases, i - 1) + regionBiases[i].ratio - 1)
        \div regionBiases[i].ratio) * regionBiases[i].ratio

UnitsEnd(regionBiases, i) ==
    IF i = 0 THEN 0 ELSE UnitsStart(regionBiases, i) + regionBiases[i].ratio

RECURSIVE UnitsTotal(_)
UnitsTotal(regionBiases) ==
    IF Len(regionBiases) = 0 THEN 0
    ELSE Head(regionBiases).ratio + UnitsTotal(Tail(regionBiases))

\* Some region so placed ends beyond the root.
PlacementOverflows(regionBiases) ==
    \E i \in 1..Len(regionBiases) :
        UnitsEnd(regionBiases, i) > 2^BitsFor(UnitsTotal(regionBiases))

CapacityExceeded == "allocate: region allocation exceeds supernet capacity"

\* The end of region i - 1 of the tree, the root's network address for the
\* first region.
EndBefore(root, i) == IF i = 1 THEN BlockStart(root) ELSE BlockEnd(root.children[i - 1])

\* C20: in a returned tree the regions stand in configuration order, each at
\* the smallest multiple of its own size at or after the end of the region
\* before it (the root's network address for the first); allocate() throws
\* the capacity error exactly when a region so placed would end beyond the
\* root, and a call that throws returns no tree.
C20_PlacementInOrder ==
    /\ Returned =>
          /\ Len(Concrete(allocation.hierarchy.children)) = Len(allocator.config.regionBiases)
          /\ \A i \in 1..Len(allocator.config.regionBiases) :
                /\ allocation.hierarchy.children[i].name = allocator.config.regionBiases[i].name
                /\ Aligned(allocation.hierarchy.children[i])
                /\ BigLe(EndBefore(allocation.hierarchy, i),
                         BlockStart(allocation.hierarchy.children[i]))
                /\ BigLt(BlockStart(allocation.hierarchy.children[i]),
                         BigAdd(EndBefore(allocation.hierarchy, i),
                                BlockSize(allocation.hierarchy.children[i])))
                /\ BlockEnd(allocation.hierarchy.children[i]) =
                      BigAdd(BlockStart(allocation.hierarchy),
                             BigMul(BigInt(UnitsEnd(allocator.config.regionBiases, i)),
                                    BigDiv(BlockSize(allocation.hierarchy.children[i]),
                                           BigInt(allocator.config.regionBiases[i].ratio))))
          /\ ~PlacementOverflows(allocator.config.regionBiases)
    /\ allocation.called /\ ~allocation.ok =>
          /\ "hierarchy" \notin DOMAIN allocation
          /\ allocation.error # SiteSizingError =>
                (allocation.error = CapacityExceeded
                    <=> PlacementOverflows(allocator.config.regionBiases))

\* Ratios 1 and 2: the second region starts one block of the first after the
\* first one's end, at the next multiple of its own size.
C20_Witness ==
    /\ Returned
    /\ Len(allocator.config.regionBiases) >= 2
    /\ allocator.config.regionBiases[1].ratio = 1
    /\ allocator.config.regionBiases[2].ratio = 2
    /\ BlockStart(allocation.hierarchy.children[2]) =
          BigAdd(BlockEnd(allocation.hierarchy.children[1]),
                 BlockSize(allocation.hierarchy.children[1]))

\* The exponent of a ratio that is a power of two.
RatioBits(ratio) == CHOOSE k \in 0..9 : 2^k = ratio

\* C21: in a returned tree every region's prefix is
\* rootPrefix + ceil(log2(sum of the ratios)) - log2(its ratio), at least the
\* root's prefix; of two regions the one with the larger ratio has the
\* strictly smaller prefix, the sizes of two regions are in the proportion of
\* their ratios, and the sizes of the regions sum to at most the root's size.
C21_RegionPrefixes ==
    Returned =>
        /\ \A i \in 1..Len(allocator.config.regionBiases) :
              /\ allocation.hierarchy.children[i].prefix =
                    allocation.hierarchy.prefix
                       + BitsFor(UnitsTotal(allocator.config.regionBiases))
                       - RatioBits(allocator.config.regionBiases[i].ratio)
              /\ allocation.hierarchy.children[i].prefix >= allocation.hierarchy.prefix
        /\ \A i, j \in 1..Len(allocator.config.regionBiases) :
              /\ allocator.config.regionBiases[i].ratio > allocator.config.regionBiases[j].ratio
                    => /\ allocation.hierarchy.children[i].prefix < allocation.hierarchy.children[j].prefix
                       /\ BigGt(allocation.hierarchy.children[i].totalAddresses,
                                allocation.hierarchy.children[j].totalAddresses)
              /\ BigMul(allocation.hierarchy.children[i].totalAddresses,
                        BigInt(allocator.config.regionBiases[j].ratio))
                  = BigMul(allocation.hierarchy.children[j].totalAddresses,
                           BigInt(allocator.config.regionBiases[i].ratio))
        /\ BigLe(SumBlocks(Concrete(allocation.hierarchy.children)),
                 BlockSize(allocation.hierarchy))

\* Ratios 2, 1, 1 in 10.0.0.0/8: a /9 and two /10.
C21_Witness ==
    /\ Returned
    /\ allocation.hierarchy.prefix = 8
    /\ Len(allocator.config.regionBiases) = 3
    /\ allocator.config.regionBiases[1].ratio = 2
    /\ allocator.config.regionBiases[2].ratio = 1
    /\ allocator.config.regionBiases[3].ratio = 1
    /\ allocation.hierarchy.children[1].prefix = 9
    /\ allocation.hierarchy.children[2].prefix = 10
    /\ allocation.hierarchy.children[3].prefix = 10

\* ------------------------------------------------------------------------
\* Territories and site capacity in the result of allocate()
\* ------------------------------------------------------------------------

SplitExceeded == "splitCIDR: would exceed /30"

\* The prefix of region i as the configuration gives it, and of its
\* territories.
ConfiguredRegionPrefix(config, i) ==
    DigitsValue(Split(config.supernet, "/")[2])
        + BitsFor(UnitsTotal(config.regionBiases)) - RatioBits(config.regionBiases[i].ratio)

ConfiguredTerritoryPrefix(config, i) ==
    ConfiguredRegionPrefix(config, i) + BitsFor(config.subRegionsPerRegion)

\* C22: in a returned tree every region other than the Unallocated node has
\* subRegionsPerRegion children of prefix regionPrefix + ceil(log2(count)),
\* child i (from 0) starting at the region's network address + i x childSize,
\* and the Unallocated node has none; the children cover their region exactly
\* when the count is a power of two; no tree is returned when a child prefix
\* would exceed /30, and allocate() throws the split error only then.
C22_Territories ==
    /\ Returned =>
          \A r \in 1..Len(allocation.hierarchy.children) :
             IF IsUnallocated(allocation.hierarchy.children[r])
             THEN allocation.hierarchy.children[r].children = <<>>
             ELSE /\ Len(allocation.hierarchy.children[r].children)
                       = allocator.config.subRegionsPerRegion
                  /\ ConfiguredTerritoryPrefix(allocator.config, r) <= 30
                  /\ \A t \in 1..Len(allocation.hierarchy.children[r].children) :
                        /\ allocation.hierarchy.children[r].children[t].prefix
                              = allocation.hierarchy.children[r].prefix
                                   + BitsFor(allocator.config.subRegionsPerRegion)
                        /\ BlockStart(allocation.hierarchy.children[r].children[t])
                              = BigAdd(BlockStart(allocation.hierarchy.children[r]),
                                       BigMul(BigInt(t - 1),
                                              BlockSize(allocation.hierarchy.children[r].children[t])))
                  /\ (SumBlocks(allocation.hierarchy.children[r].children)
                          = BlockSize(allocation.hierarchy.children[r]))
                       <=> allocator.config.subRegionsPerRegion \in {2^k : k \in 0..9}
    /\ allocation.called /\ ~allocation.ok /\ allocation.error = SplitExceeded =>
          \E i \in 1..Len(allocator.config.regionBiases) :
              ConfiguredTerritoryPrefix(allocator.config, i) > 30

\* Five territories in each region of a tree: /11 blocks in a /8 region,
\* five of the eight that fill it.
C22_Witness ==
    /\ Returned
    /\ allocator.config.subRegionsPerRegion = 5
    /\ Len(allocation.hierarchy.children) >= 2
    /\ IsUnallocated(allocation.hierarchy.children[Len(allocation.hierarchy.children)])
    /\ Len(allocation.hierarchy.children[1].children) = 5
    /\ allocation.hierarchy.children[1].children[5].prefix
          = allocation.hierarchy.children[1].prefix + 3
    /\ BigLt(BlockEnd(allocation.hierarchy.children[1].children[5]),
             BlockEnd(allocation.hierarchy.children[1]))

\* Configurations in which a region may carry the name "Unallocated", the
\* name allocate() gives the node it makes for the remainder.
NamedRegionBiasInputs ==
    UNION {{[i \in 1..n |-> [name |-> names[i], ratio |-> ratios[i]]] :
               names \in [1..n -> {"EMEA", "Unallocated"}], ratios \in [1..n -> {1, 2}]} :
           n \in {0, 1, 2}}

NamedConfigs ==
    [supernet : ValidSupernets,
     regionBiases : NamedRegionBiasInputs,
     subRegionsPerRegion : {1, 2},
     vlansPerSite : {1, 5},
     vlanSize : {24, 30},
     totalSitesNeeded : SitesNeededInputs]

\* The allocator over configurations with such names.
NextNamed ==
    \/ Construct(NamedConfigs)
    \/ Allocate

SpecNamed == Init /\ [][NextNamed]_vars

\* The children of the root that stand for the configured regions: the first
\* Len(regionBiases) of them.
ConfiguredRegions ==
    SubSeq(allocation.hierarchy.children, 1, Len(allocator.config.regionBiases))

RECURSIVE SumTerritories(_)
SumTerritories(territories) ==
    IF Len(territories) = 0 THEN 0
    ELSE 2^(allocation.sitePrefixRecommendation - Head(territories).prefix)
            + SumTerritories(Tail(territories))

RECURSIVE SumRegionSites(_)
SumRegionSites(regions) ==
    IF Len(regions) = 0 THEN 0
    ELSE SumTerritories(Head(regions).children) + SumRegionSites(Tail(regions))

\* C23: in the result of allocate() each territory's sitesCapacity is
\* 2^(sitePrefix - territoryPrefix); regionBreakdown has one entry per
\* configured region, in configuration order, whose sitesCapacity is the sum
\* over that region's territories; totalSitesSupported, also in the summary,
\* is the sum over all regions, the Unallocated node contributing nothing.
C23_SiteCapacity ==
    Returned =>
        /\ \A r \in 1..Len(allocation.hierarchy.children) :
           \A t \in 1..Len(allocation.hierarchy.children[r].children) :
              allocation.hierarchy.children[r].children[t].metadata.sitesCapacity
                 = 2^(allocation.sitePrefixRecommendation
                         - allocation.hierarchy.children[r].children[t].prefix)
        /\ Len(allocation.summary.regionBreakdown) = Len(allocator.config.regionBiases)
        /\ \A i \in DOMAIN allocation.summary.regionBreakdown :
              /\ i <= Len(allocator.config.regionBiases)
              /\ allocation.summary.regionBreakdown[i].name = allocator.config.regionBiases[i].name
              /\ allocation.summary.regionBreakdown[i].cidr = ConfiguredRegions[i].cidr
              /\ allocation.summary.regionBreakdown[i].sitesCapacity
                    = SumTerritories(ConfiguredRegions[i].children)
        /\ allocation.totalSitesSupported = SumRegionSites(ConfiguredRegions)
        /\ allocation.summary.totalSitesSupported = allocation.totalSitesSupported
        /\ Len(allocation.hierarchy.children) > Len(allocator.config.regionBiases) =>
              allocation.hierarchy.children[Len(allocation.hierarchy.children)].children = <<>>

\* Regions "Unallocated" and "EMEA" of ratio 1: the tree has both, the first
\* without territories, and regionBreakdown has the entry of EMEA alone.
C23_Witness ==
    /\ Returned
    /\ Len(allocator.config.regionBiases) = 2
    /\ allocator.config.regionBiases[1].name = "Unallocated"
    /\ allocator.config.regionBiases[2].name = "EMEA"
    /\ Len(allocation.hierarchy.children) = 2
    /\ allocation.hierarchy.children[1].children = <<>>
    /\ Len(allocation.summary.regionBreakdown) = 1
    /\ allocation.summary.regionBreakdown[1].name = "EMEA"
    /\ allocation.summary.totalRegions = 2

\* ------------------------------------------------------------------------
\* Host ranges
\* ------------------------------------------------------------------------

\* The network and broadcast address of the block of math.ip at math.prefix:
\* the address with its low 32 - prefix bits cleared, and with them set.
RangeNetwork == {b \in ipToNumber(math.ip) : b >= 32 - math.prefix}

RangeBroadcast == RangeNetwork \cup 0..(31 - math.prefix)

\* C24: getHostRange(ip, p) returns first = last = network for /32; for
\* p <= 30 first = network + 1 and last = broadcast - 1, first <= last and
\* usableHosts(p) addresses from first to last; for /31 also first =
\* network + 1 and last = broadcast - 1, which is last < first: first is the
\* broadcast and last the network address, while usableHosts(31) is 2.
C24_HostRange ==
    Called("getHostRange") /\ math.prefix \in 0..32 /\ ~ipToNumberThrows(math.ip) =>
        /\ math.result.ok
        /\ math.prefix = 32 =>
              /\ ipToNumber(math.result.value.first) = RangeNetwork
              /\ math.result.value.last = math.result.value.first
        /\ math.prefix <= 31 =>
              /\ ipToNumber(math.result.value.first) = BigAdd(RangeNetwork, BigInt(1))
              /\ BigAdd(ipToNumber(math.result.value.last), BigInt(1)) = RangeBroadcast
        /\ math.prefix <= 30 =>
              /\ BigLe(ipToNumber(math.result.value.first), ipToNumber(math.result.value.last))
              /\ BigAdd(BigSub(ipToNumber(math.result.value.last),
                               ipToNumber(math.result.value.first)), BigInt(1))
                    = usableHosts(math.prefix)
        /\ math.prefix = 31 =>
              /\ BigLt(ipToNumber(math.result.value.last), ipToNumber(math.result.value.first))
              /\ ipToNumber(math.result.value.first) = RangeBroadcast
              /\ ipToNumber(math.result.value.last) = RangeNetwork
              /\ usableHosts(31) = BigInt(2)

\* A /31: the range runs from the higher address to the lower.
C24_Witness ==
    /\ Called("getHostRange")
    /\ math.prefix = 31
    /\ math.result.ok
    /\ ipToNumber(math.result.value.first)
          = BigAdd(ipToNumber(math.result.value.last), BigInt(1))

\* ------------------------------------------------------------------------
\* The entries allocateRegions() returns
\* ------------------------------------------------------------------------

\* The root of the regional allocator as written: the address of the
\* supernet text, host bits included, and its prefix.
RegionalBase == ipToNumber(Split(regional.supernet, "/")[1])

RegionalPrefix == DigitsValue(Split(regional.supernet, "/")[2])

\* The sum of the block sizes 2^(32 - rootPrefix - bits) of regions 1 .. n.
RECURSIVE SizesBefore(_, _)
SizesBefore(regions, n) ==
    IF n = 0 THEN BigInt(0)
    ELSE BigAdd(SizesBefore(regions, n - 1), {32 - RegionalPrefix - regions[n].prefixBits})

AllocateRegionsReturned == RegionalCalled("allocateRegions") /\ regionalCall.result.ok

\* C25: allocateRegions() returns the regions in configuration order, region
\* k with prefix rootPrefix + bits_k, starting at rootBase + the sum of the
\* block sizes of the regions before it, so that each region starts where the
\* one before it ends, whether or not that is a multiple of its size.
C25_BackToBack ==
    AllocateRegionsReturned =>
        /\ Len(regionalCall.result.allocations) >= Len(regional.regions)
        /\ \A k \in 1..Len(regional.regions) :
              /\ regionalCall.result.allocations[k].regionName = regional.regions[k].name
              /\ regionalCall.result.allocations[k].prefix
                    = RegionalPrefix + regional.regions[k].prefixBits
              /\ regionalCall.result.allocations[k].allocatedBits = regional.regions[k].prefixBits
              /\ ipToNumber(regionalCall.result.allocations[k].network)
                    = BigAdd(RegionalBase, SizesBefore(regional.regions, k - 1))

\* Two regions of 0 bits in 255.255.255.0/24: the second, 256 addresses
\* after 255.255.255.0, is written 0.0.0.0/24.
C25_Witness ==
    /\ AllocateRegionsReturned
    /\ regional.supernet = CidrText(<<255, 255, 255, 0>>, 24)
    /\ Len(regional.regions) = 2
    /\ \A k \in 1..2 : regional.regions[k].prefixBits = 0
    /\ regionalCall.result.allocations[1].cidr = CidrText(<<255, 255, 255, 0>>, 24)
    /\ regionalCall.result.allocations[2].cidr = CidrText(<<0, 0, 0, 0>>, 24)

\* The addresses of the root that the regions occupy, and the size of the root.
RegionalUsed == SizesBefore(regional.regions, Len(regional.regions))

RegionalRootSize == {32 - RegionalPrefix}

SpaceRemains == BigLt(RegionalUsed, RegionalRootSize)

\* The last entry of a returned list.
TrailingEntry == regionalCall.result.allocations[Len(regionalCall.result.allocations)]

\* The largest power of two that is at most n, for n > 0.
LargestPowerOfTwoIn(n) == {Max(n)}

\* C26: allocateRegions() appends one trailing "Unallocated" block, right after
\* the last region, exactly when the regions leave space in the root; its size
\* is the largest power of two that fits the remaining addresses of the root.
C26_TrailingUnallocated ==
    AllocateRegionsReturned =>
        /\ Len(regionalCall.result.allocations)
              = Len(regional.regions) + (IF SpaceRemains THEN 1 ELSE 0)
        /\ SpaceRemains =>
              /\ TrailingEntry.regionName = "Unallocated"
              /\ ipToNumber(TrailingEntry.network)
                    = BigAdd(RegionalBase, RegionalUsed)
              /\ {32 - TrailingEntry.prefix}
                    = LargestPowerOfTwoIn(BigSub(RegionalRootSize, RegionalUsed))

\* One region of 0 bits fills 10.0.0.0/24, and 10.0.1.0/25 is appended as
\* unallocated.
C26_Witness ==
    /\ AllocateRegionsReturned
    /\ regional.supernet = CidrText(<<10, 0, 0, 0>>, 24)
    /\ Len(regional.regions) = 1
    /\ regional.regions[1].prefixBits = 0
    /\ Len(regionalCall.result.allocations) = 2
    /\ regionalCall.result.allocations[1].cidr = CidrText(<<10, 0, 0, 0>>, 24)
    /\ regionalCall.result.allocations[2].regionName = "Unallocated"
    /\ regionalCall.result.allocations[2].cidr = CidrText(<<10, 0, 1, 0>>, 25)

\* ------------------------------------------------------------------------
\* SubnetHierarchy.updateConfig
\* ------------------------------------------------------------------------

\* { ...this.config, ...newConfig }: the keys of newConfig replace those of
\* this.config.
MergeConfig(config, newConfig) ==
    [supernet |-> IF "supernet" \in DOMAIN newConfig THEN newConfig.supernet
                  ELSE config.supernet,
     levels |-> IF "levels" \in DOMAIN newConfig THEN newConfig.levels ELSE config.levels]

\* this.levels[index] = value on an array that has at least index entries.
AssignAt(levels, index, value) ==
    IF index + 1 \in DOMAIN levels THEN [levels EXCEPT ![index + 1] = value]
    ELSE Append(levels, value)

ResetLevels_kept(levels) == levels

\* this.levels = []
ResetLevels(levels) == <<>>

\* The loop over levelIdx on the object's own array: this.levels[levelIdx]
\* is set to [] and filled; what throws in the loop's body throws before the
\* first push.
RECURSIVE RebuildFrom(_, _, _)
RebuildFrom(config, levelIdx, levels) ==
    IF levelIdx >= Len(config.levels) THEN [ok |-> TRUE, error |-> "", levels |-> levels]
    ELSE IF LevelError(config, levelIdx) # ""
    THEN [ok |-> FALSE, error |-> LevelError(config, levelIdx),
          levels |-> AssignAt(levels, levelIdx, <<>>)]
    ELSE RebuildFrom(config, levelIdx + 1,
             AssignAt(levels, levelIdx,
                      ChildLevel(config, levelIdx, levels[levelIdx],
                                 BigToNumber(subnetCount(config.levels[levelIdx].prefix,
                                                         config.levels[levelIdx + 1].prefix)))))

\* calculateHierarchy() on an object that has levels already: parseCIDR
\* throws before this.levels is touched, the entry of level 0 is evaluated
\* after this.levels = [] and before it is stored.
recalculateHierarchy(levels, config) ==
    IF ~parseCIDR(config.supernet).ok
    THEN [ok |-> FALSE, error |-> parseCIDR(config.supernet).error, levels |-> levels]
    ELSE IF Len(config.levels) < 2
    THEN [ok |-> FALSE, error |-> "TypeError: config.levels[1] is undefined",
          levels |-> ResetLevels(levels)]
    ELSE IF subnetCountThrows(parseCIDR(config.supernet).prefix, config.levels[2].prefix)
    THEN [ok |-> FALSE, error |-> "subnetCount: subnet prefix must be >= supernet prefix",
          levels |-> ResetLevels(levels)]
    ELSE RebuildFrom(config, 1, AssignAt(ResetLevels(levels), 0, SupernetLevel(config)))

\* updateConfig(newConfig): the object afterwards, whether or not
\* calculateHierarchy() threw.
updateConfig(object, newConfig) ==
    [constructed |-> TRUE,
     config |-> MergeConfig(object.config, newConfig),
     levels |-> recalculateHierarchy(object.levels,
                                     MergeConfig(object.config, newConfig)).levels]

\* The largest number of updateConfig() calls on one object.
MaxUpdates == 2

\* The partial configurations given to updateConfig(): a supernet, levels,
\* or both.
UpdateSupernets ==
    {CidrText(<<10, 0, 0, 0>>, 8), CidrText(<<10, 1, 2, 3>>, 16), TextBadCidr}

\* Levels from /8 on, each one or two bits longer or one bit shorter than
\* the one before.
UpdateLevelInputs ==
    {levels \in LevelInputs(8) :
        /\ levels[1].prefix = 8
        /\ \A k \in 2..Len(levels) : levels[k].prefix # levels[k - 1].prefix}

UpdateInputs ==
    {[supernet |-> supernet] : supernet \in UpdateSupernets}
        \cup {[levels |-> levels] : levels \in UpdateLevelInputs}
        \cup {[supernet |-> CidrText(<<10, 1, 2, 3>>, 16), levels |-> levels] :
                  levels \in UpdateLevelInputs}

\* The configurations of the objects that are updated.
UpdateStartConfigs ==
    {[supernet |-> CidrText(<<10, 0, 0, 0>>, 8), levels |-> levels] :
        levels \in UpdateLevelInputs}

\* The calls of updateConfig() so far: TRUE for one that returned, FALSE for
\* one that threw.
UpdatesSoFar == IF hierarchyCall.called THEN hierarchyCall.returned ELSE <<>>

\* hierarchy.updateConfig(newConfig)
UpdateConfig ==
    /\ hierarchy.constructed
    /\ Len(UpdatesSoFar) < MaxUpdates
    /\ \E newConfig \in UpdateInputs :
          /\ hierarchy' = updateConfig(hierarchy, newConfig)
          /\ hierarchyCall' =
                [called |-> TRUE, function |-> "updateConfig",
                 returned |-> Append(UpdatesSoFar,
                                     recalculateHierarchy(hierarchy.levels,
                                         MergeConfig(hierarchy.config, newConfig)).ok)]
    /\ UNCHANGED <<allocator, allocation, siteExample, math, regional, regionalCall,
                   calculator, calculatorCall>>

\* A subnet hierarchy and its updates.
NextUpdate ==
    \/ ConstructHierarchyFrom(UpdateStartConfigs)
    \/ UpdateConfig

SpecUpdate == Init /\ [][NextUpdate]_vars

\* The last updateConfig() returned.
UpdateReturned ==
    /\ hierarchyCall.called
    /\ hierarchyCall.returned[Len(hierarchyCall.returned)]

\* A SubnetHierarchy newly constructed from the configuration the object holds.
FreshHierarchy ==
    [constructed |-> TRUE, config |-> hierarchy.config,
     levels |-> calculateHierarchy(hierarchy.config).levels]

\* C27: after an updateConfig() that returned, whatever calls came before it,
\* getLevel(i) and getLevelSummary(i) are for every i those of a
\* SubnetHierarchy newly constructed from the merged configuration.
C27_UpdateRebuilds ==
    UpdateReturned =>
        /\ calculateHierarchy(hierarchy.config).ok
        /\ \A fresh \in {FreshHierarchy} :
              /\ \A i \in HierarchyLevelIndexInputs :
                    getLevel(hierarchy, i) = getLevel(fresh, i)
              /\ \A i \in HierarchyLevelIndexInputs :
                    getLevelSummary(hierarchy, i) = getLevelSummary(fresh, i)

\* An update that threw, then an update to two levels in 10.0.0.0/8, /8 and
\* /9: level 1 is the two /9 and there is no level 2.
C27_Witness ==
    /\ UpdateReturned
    /\ hierarchyCall.returned = <<FALSE, TRUE>>
    /\ hierarchy.config.supernet = CidrText(<<10, 0, 0, 0>>, 8)
    /\ Len(hierarchy.config.levels) = 2
    /\ hierarchy.config.levels[2].prefix = 9
    /\ Len(getLevel(hierarchy, 1)) = 2
    /\ getLevel(hierarchy, 1)[2].cidr = CidrText(<<10, 128, 0, 0>>, 9)
    /\ getLevel(hierarchy, 2) = <<>>

\* ------------------------------------------------------------------------
\* Regions listed from the largest ratio to the smallest
\* ------------------------------------------------------------------------

NonIncreasing(regionBiases) ==
    \A i \in 2..Len(regionBiases) : regionBiases[i].ratio <= regionBiases[i - 1].ratio

RegionPrefixesFit(config) ==
    \A i \in 1..Len(config.regionBiases) : ConfiguredRegionPrefix(config, i) <= 32

\* Ratios 1, 2, 1, 4 in 10.0.0.0/8: eight shares in a root of eight.
OutOfOrderExample ==
    [supernet |-> CidrText(<<10, 0, 0, 0>>, 8),
     regionBiases |-> [i \in 1..4 |-> [name |-> RegionNames[i], ratio |-> <<1, 2, 1, 4>>[i]]],
     subRegionsPerRegion |-> 1,
     vlansPerSite |-> 1,
     vlanSize |-> 24,
     totalSitesNeeded |-> 1]

OutOfOrderFails ==
    /\ validate(OutOfOrderExample).ok
    /\ ~allocate(OutOfOrderExample).ok
    /\ allocate(OutOfOrderExample).error = CapacityExceeded
    /\ UnitsTotal(OutOfOrderExample.regionBiases)
          <= 2^BitsFor(UnitsTotal(OutOfOrderExample.regionBiases))

\* C28: when the regions are listed with non-increasing ratios and no region
\* prefix exceeds 32, allocate() does not fail with the capacity error and
\* every region of the returned tree starts where the region before it ends,
\* the first at the root's network address; a capacity error means the
\* ratios were not in that order, as for ratios 1, 2, 1, 4 in a /8, whose
\* sizes sum to the size of the root.
C28_OrderedRegionsContiguous ==
    /\ (allocation.called /\ NonIncreasing(allocator.config.regionBiases)
           /\ RegionPrefixesFit(allocator.config)) =>
          /\ ~allocation.ok => allocation.error # CapacityExceeded
          /\ allocation.ok =>
                \A i \in 1..Len(allocator.config.regionBiases) :
                    BlockStart(allocation.hierarchy.children[i])
                        = EndBefore(allocation.hierarchy, i)
    /\ OutOfOrderFails

\* Ratios 2, 1, 1 in 10.0.0.0/8: 10.0.0.0/9, 10.128.0.0/10 and 10.192.0.0/10.
C28_Witness ==
    /\ Returned
    /\ allocation.hierarchy.prefix = 8
    /\ Len(allocator.config.regionBiases) = 3
    /\ allocator.config.regionBiases[1].ratio = 2
    /\ allocator.config.regionBiases[2].ratio = 1
    /\ allocator.config.regionBiases[3].ratio = 1
    /\ NonIncreasing(allocator.config.regionBiases)
    /\ allocation.hierarchy.children[2].cidr = CidrText(<<10, 128, 0, 0>>, 10)
    /\ allocation.hierarchy.children[3].cidr = CidrText(<<10, 192, 0, 0>>, 10)

\* ------------------------------------------------------------------------
\* What alignment skips between two regions
\* ------------------------------------------------------------------------

\* The addresses skipped before regions 1 .. n of the tree: from the end of
\* the region before to the start of the region.
RECURSIVE SkippedBefore(_, _)
SkippedBefore(root, n) ==
    IF n = 0 THEN BigInt(0)
    ELSE BigAdd(SkippedBefore(root, n - 1),
                BigSub(BlockStart(root.children[n]), EndBefore(root, n)))

\* The addresses of a node by its totalAddresses: from its network address on.
NodeEnd(node) == BigAdd(BlockStart(node), node.totalAddresses)

RegionCount == Len(allocator.config.regionBiases)

\* C29: in a returned tree the addresses between the end of a region and the
\* start of the next lie in no child of the root, the Unallocated node
\* included; the Unallocated node and the warning measure the space from the
\* end of the last region to the end of the root; the children together hold
\* the root less the skipped addresses, so with ratios 1, 2 in a /8 a quarter
\* of the root is in no node, and there is no Unallocated node and no warning.
C29_SkippedAddresses ==
    Returned =>
        /\ \A i \in 1..RegionCount :
              \A n \in DOMAIN allocation.hierarchy.children :
                  \/ BigLe(NodeEnd(allocation.hierarchy.children[n]),
                           EndBefore(allocation.hierarchy, i))
                  \/ BigLe(BlockStart(allocation.hierarchy.children[i]),
                           BlockStart(allocation.hierarchy.children[n]))
        /\ allocation.warnings.defined =>
              /\ Len(allocation.warnings.value) = 1
              /\ allocation.warnings.value[1].size
                    = BigSub(BlockEnd(allocation.hierarchy), PlacedEnd(allocation.hierarchy))
              /\ allocation.hierarchy.children[RegionCount + 1].totalAddresses
                    = allocation.warnings.value[1].size
        /\ BigAdd(SumAddresses(allocation.hierarchy.children,
                               Len(allocation.hierarchy.children)),
                  SkippedBefore(allocation.hierarchy, RegionCount))
              = BlockSize(allocation.hierarchy)
        /\ (/\ allocation.hierarchy.prefix = 8
            /\ RegionCount = 2
            /\ allocator.config.regionBiases[1].ratio = 1
            /\ allocator.config.regionBiases[2].ratio = 2)
           => /\ Len(allocation.hierarchy.children) = 2
              /\ ~allocation.warnings.defined
              /\ SkippedBefore(allocation.hierarchy, 2) = {22}
              /\ SumAddresses(allocation.hierarchy.children, 2) = {22, 23}

\* Ratios 1, 2 in 10.0.0.0/8: 10.0.0.0/10 and 10.128.0.0/9, with 10.64.0.0/10
\* in neither, and nothing reported.
C29_Witness ==
    /\ Returned
    /\ RegionCount = 2
    /\ Len(allocation.hierarchy.children) = 2
    /\ allocation.hierarchy.children[1].cidr = CidrText(<<10, 0, 0, 0>>, 10)
    /\ allocation.hierarchy.children[2].cidr = CidrText(<<10, 128, 0, 0>>, 9)
    /\ ~allocation.warnings.defined

\* ------------------------------------------------------------------------
\* Mutators that store before they validate
\* ------------------------------------------------------------------------

\* setSupernet(supernet): the object afterwards and what validate() gave.
setSupernet(object, supernet) ==
    [object |-> [object EXCEPT !.supernet = supernet],
     result |-> validateCalculator(supernet, object.vlanPrefix)]

\* setVlanPrefix that validates the new prefix before it stores it.
setVlanPrefix_validateFirst(object, prefix) ==
    [object |-> IF validateCalculator(object.supernet, prefix).ok
                THEN [object EXCEPT !.vlanPrefix = prefix]
                ELSE object,
     result |-> validateCalculator(object.supernet, prefix)]

\* setVlanPrefix(prefix): the object afterwards and what validate() gave.
setVlanPrefix(object, prefix) ==
    [object |-> [object EXCEPT !.vlanPrefix = prefix],
     result |-> validateCalculator(object.supernet, prefix)]

\* getSnapshot()
getSnapshot(object) ==
    IF SnapshotError(object) # "" THEN Throw(SnapshotError(object))
    ELSE [ok |-> TRUE,
          supernet |-> object.supernet,
          supnetPrefix |-> parseCIDR(object.supernet).prefix,
          vlanPrefix |-> object.vlanPrefix,
          totalVlans |-> subnetCount(parseCIDR(object.supernet).prefix, object.vlanPrefix),
          totalAddresses |-> subnetAddressCount(parseCIDR(object.supernet).prefix),
          usableHostsPerVlan |-> usableHosts(object.vlanPrefix)]

\* calculator.setSupernet(supernet), the first call on the object.
SetSupernet ==
    /\ calculator.constructed
    /\ calculatorCall = NotCalled
    /\ \E supernet \in CalculatorSupernets :
          /\ calculator' = setSupernet(calculator, supernet).object
          /\ calculatorCall' = [called |-> TRUE, function |-> "setSupernet",
                                argument |-> supernet, before |-> calculator,
                                result |-> setSupernet(calculator, supernet).result]
    /\ UNCHANGED <<allocator, allocation, siteExample, math, regional, regionalCall,
                   hierarchy, hierarchyCall>>

\* calculator.setVlanPrefix(prefix), the first call on the object.
SetVlanPrefix ==
    /\ calculator.constructed
    /\ calculatorCall = NotCalled
    /\ \E prefix \in CalculatorVlanPrefixInputs :
          /\ calculator' = setVlanPrefix(calculator, prefix).object
          /\ calculatorCall' = [called |-> TRUE, function |-> "setVlanPrefix",
                                argument |-> prefix, before |-> calculator,
                                result |-> setVlanPrefix(calculator, prefix).result]
    /\ UNCHANGED <<allocator, allocation, siteExample, math, regional, regionalCall,
                   hierarchy, hierarchyCall>>

\* calculator.getSnapshot(), once on the object, before or after a setter.
GetSnapshot ==
    /\ calculator.constructed
    /\ calculatorCall.called => calculatorCall.function # "getSnapshot"
    /\ calculatorCall' = [called |-> TRUE, function |-> "getSnapshot",
                          after |-> calculatorCall,
                          result |-> getSnapshot(calculator)]
    /\ UNCHANGED <<allocator, allocation, siteExample, math, regional, regionalCall,
                   hierarchy, hierarchyCall, calculator>>

\* The two classes share no state: a behaviour is of a calculator or of a
\* regional allocator.
ConstructCalculatorAlone == regional = NoAllocator /\ ConstructCalculator

ConstructRegionalAlone == calculator = NoAllocator /\ ConstructRegional

NextMutators ==
    \/ ConstructCalculatorAlone
    \/ SetSupernet
    \/ SetVlanPrefix
    \/ GetSnapshot
    \/ ConstructRegionalAlone
    \/ UpdateRegionBits

SpecMutators == Init /\ [][NextMutators]_vars

\* What held after construction: the supernet parses and the VLAN prefix is
\* not below its prefix; the weights 2^bits sum to at most 2^availableBits.
CalculatorInvariant(object) ==
    /\ StrictCidr(object.supernet)
    /\ parseCIDR(object.supernet).ok
    /\ object.vlanPrefix >= DigitsValue(Split(object.supernet, "/")[2])

RegionalInvariant(object) == ~WeightsExceed(object.supernet, object.regions)

CalculatorCalled(function) == calculatorCall.called /\ calculatorCall.function = function

\* The last setter call on the calculator, whether or not getSnapshot()
\* followed it.
SetterCall == IF CalculatorCalled("getSnapshot") THEN calculatorCall.after ELSE calculatorCall

\* C30: setSupernet, setVlanPrefix and updateRegionBits store the new value
\* and then validate: after a call that threw the new value is in the object
\* and what held after construction holds no more (VLAN prefix >= root
\* prefix; summed 2^bits <= 2^availableBits); getSnapshot() throws on an
\* object whose VLAN prefix is below the root prefix; updateRegionBits with a
\* name no region has throws and changes nothing.
C30_StoreThenValidate ==
    /\ calculator.constructed /\ ~calculatorCall.called => CalculatorInvariant(calculator)
    /\ SetterCall.called =>
          /\ SetterCall.function = "setSupernet" =>
                /\ calculator.supernet = SetterCall.argument
                /\ calculator.vlanPrefix = SetterCall.before.vlanPrefix
          /\ SetterCall.function = "setVlanPrefix" =>
                /\ calculator.vlanPrefix = SetterCall.argument
                /\ calculator.supernet = SetterCall.before.supernet
          /\ CalculatorInvariant(SetterCall.before)
          /\ SetterCall.result.ok <=> CalculatorInvariant(calculator)
    /\ CalculatorCalled("getSnapshot") =>
          /\ calculatorCall.result.ok => CalculatorInvariant(calculator)
          /\ (calculatorCall.after.called /\ ~calculatorCall.after.result.ok)
                => ~calculatorCall.result.ok
          /\ (/\ StrictCidr(calculator.supernet)
              /\ parseCIDR(calculator.supernet).ok
              /\ calculator.vlanPrefix < parseCIDR(calculator.supernet).prefix)
                => /\ ~calculatorCall.result.ok
                   /\ calculatorCall.result.error
                         = "subnetCount: subnet prefix must be >= supernet prefix"
    /\ regional.constructed /\ ~regionalCall.called => RegionalInvariant(regional)
    /\ RegionalCalled("updateRegionBits") =>
          IF \A i \in DOMAIN regionalCall.before :
                regionalCall.before[i].name # regionalCall.regionName
          THEN /\ ~regionalCall.result.ok
               /\ regionalCall.result.error = "Region not found"
               /\ regional.regions = regionalCall.before
               /\ RegionalInvariant(regional)
          ELSE /\ regional.regions = RegionsAsked
               /\ regionalCall.result.ok <=> RegionalInvariant(regional)

\* A calculator on 10.0.0.0/24 with VLAN prefix 24, setVlanPrefix(7)
\* refused, 7 stored, and a getSnapshot() that throws.
C30_Witness ==
    /\ CalculatorCalled("getSnapshot")
    /\ calculatorCall.after.called
    /\ calculatorCall.after.function = "setVlanPrefix"
    /\ calculatorCall.after.argument = 7
    /\ calculatorCall.after.before.vlanPrefix = 24
    /\ ~calculatorCall.after.result.ok
    /\ calculator.supernet = CidrText(<<10, 0, 0, 0>>, 24)
    /\ calculator.vlanPrefix = 7
    /\ ~calculatorCall.result.ok

====
